---- MODULE Spec2Model ----
(***************************************************************************)
(* Model of the Optyx inference gateway: API-key pre-handler, model/tier   *)
(* resolution, audit-log open/close, provider translators (OpenAI chat     *)
(* passthrough, OpenAI Responses event stream, Google generateContent)     *)
(* and the streaming relay streamToClient.                                 *)
(*                                                                         *)
(* Strings are sequences of atoms.  An atom is a record with a field k:    *)
(*   [k |-> "nl"]              the character "\n"                          *)
(*   [k |-> "data:"]           the text "data: "                           *)
(*   [k |-> "event:"]          the text "event: "                          *)
(*   [k |-> "word", w |-> s]   a run of non-blank text s                   *)
(*   [k |-> "[DO"], [k |-> "NE]"]  the two halves of the text "[DONE]"     *)
(*   [k |-> "{", j |-> obj]    the JSON text of obj without its last brace *)
(*   [k |-> "}"]               the closing brace of a JSON text            *)
(* A chunk boundary may fall between any two atoms.  JSON objects are      *)
(* records; an absent property is an absent field.  Nested properties the  *)
(* gateway reads are flattened: choices[0].delta.role -> role,             *)
(* choices[0].delta.content -> content, choices[0].finish_reason ->        *)
(* finish_reason, response.incomplete_details.reason -> reason.  Generated *)
(* ids and timestamps are left out.  A text (a JSON string value) is a     *)
(* sequence of characters drawn from "A", "B", "LF" (newline), " " and     *)
(* "[DONE]" (the six characters [DONE] inside a string value).  A nullable *)
(* number is <<>> (null) or <<n>>.                                         *)
(***************************************************************************)
EXTENDS Integers, Sequences, FiniteSets, TLC

\* ------------------------------------------------------------------ bounds

\* Upstream chunks delivered to one relayed stream (StreamSpec).
MaxChunks == 3

\* Upstream chunks delivered to a stream inside the full request pipeline (Spec).
PipelineChunks == 1

\* ------------------------------------------------------------ string model

NL == [k |-> "nl"]
DATA == [k |-> "data:"]
EVENT == [k |-> "event:"]
DO == [k |-> "[DO"]
NE == [k |-> "NE]"]
JT == [k |-> "}"]
W(s) == [k |-> "word", w |-> s]
JH(j) == [k |-> "{", j |-> j]

Null == <<>>
Some(n) == <<n>>

Has(j, f) == f \in DOMAIN j
Get(j, f, d) == IF f \in DOMAIN j THEN j[f] ELSE d

\* text.trim() === "" for a JSON string value
IsBlank(text) == \A i \in 1..Len(text) : text[i] \in {"LF", " "}

RECURSIVE Flatten(_)
Flatten(ss) == IF ss = <<>> THEN <<>> ELSE Head(ss) \o Flatten(Tail(ss))

RECURSIVE SelectNonEmpty(_)
SelectNonEmpty(ss) ==
  IF ss = <<>> THEN <<>>
  ELSE IF Head(ss) = <<>> THEN SelectNonEmpty(Tail(ss))
       ELSE <<Head(ss)>> \o SelectNonEmpty(Tail(ss))

\* String.prototype.trim: "\n" is the only blank atom of a string
RECURSIVE TrimLeft(_)
TrimLeft(s) == IF s # <<>> /\ Head(s) = NL THEN TrimLeft(Tail(s)) ELSE s

RECURSIVE TrimRight(_)
TrimRight(s) ==
  IF s # <<>> /\ s[Len(s)] = NL THEN TrimRight(SubSeq(s, 1, Len(s) - 1)) ELSE s

Trim(s) == TrimRight(TrimLeft(s))

\* s.split("\n")
RECURSIVE SplitLines(_)
SplitLines(s) ==
  IF \E i \in 1..Len(s) : s[i] = NL
  THEN LET i == CHOOSE n \in 1..Len(s) : s[n] = NL /\ \A m \in 1..(n - 1) : s[m] # NL
       IN  <<SubSeq(s, 1, i - 1)>> \o SplitLines(SubSeq(s, i + 1, Len(s)))
  ELSE <<s>>

\* s.split("\n\n"): leftmost, non-overlapping separators
RECURSIVE SplitBlank(_)
SplitBlank(s) ==
  IF \E i \in 1..(Len(s) - 1) : s[i] = NL /\ s[i + 1] = NL
  THEN LET i == CHOOSE n \in 1..(Len(s) - 1) :
                  /\ s[n] = NL /\ s[n + 1] = NL
                  /\ \A m \in 1..(n - 1) : ~(s[m] = NL /\ s[m + 1] = NL)
       IN  <<SubSeq(s, 1, i - 1)>> \o SplitBlank(SubSeq(s, i + 2, Len(s)))
  ELSE <<s>>

RECURSIVE MapTrim(_)
MapTrim(ss) == IF ss = <<>> THEN <<>> ELSE <<Trim(Head(ss))>> \o MapTrim(Tail(ss))

\* s.split("\n").map((l) => l.trim()).filter(Boolean)
TrimmedLines(s) == SelectNonEmpty(MapTrim(SplitLines(s)))

\* s.startsWith("data:") / s.startsWith("event:")
StartsWith(s, atom) == s # <<>> /\ Head(s) = atom

\* s.replace(/^data:\s*/, "") and s.replace(/^event:\s*/, "")
StripPrefix(s, atom) == IF StartsWith(s, atom) THEN TrimLeft(Tail(s)) ELSE s

\* a JSON string value holds the characters [DONE]
TextHasDone(text) == \E i \in 1..Len(text) : text[i] = "[DONE]"

JsonHasDone(j) ==
  \/ TextHasDone(Get(j, "content", <<>>))
  \/ TextHasDone(Get(j, "delta", <<>>))
  \/ TextHasDone(Flatten(Get(j, "parts", <<>>)))

\* s.includes("[DONE]")
IncludesDone(s) ==
  \/ \E i \in 1..(Len(s) - 1) : s[i] = DO /\ s[i + 1] = NE
  \/ \E i \in 1..Len(s) : s[i].k = "{" /\ JsonHasDone(s[i].j)

\* JSON.parse(s) succeeds: s is the text of exactly one JSON object
IsJson(s) == Len(Trim(s)) = 2 /\ Trim(s)[1].k = "{" /\ Trim(s)[2] = JT

\* JSON.parse(s), for IsJson(s)
JsonParse(s) == Trim(s)[1].j

\* JSON.stringify(j)
JsonStringify(j) == <<JH(j), JT>>

\* `data: ${JSON.stringify(payload)}\n\n`
DataFrame(j) == <<DATA>> \o JsonStringify(j) \o <<NL, NL>>

\* "data: [DONE]\n\n"
DoneFrame == <<DATA, DO, NE, NL, NL>>

\* ------------------------------------------------------------- translators

NoUsage == [none |-> TRUE]

\* A canonical chat.completion.chunk payload; delta is a record holding the
\* properties of choices[0].delta that are present (role, content).
ChatChunk(model, delta, finishReason) ==
  delta @@ [object |-> "chat.completion.chunk", model |-> model,
            finish_reason |-> finishReason]

NoDelta == [d \in {} |-> ""]

RECURSIVE ParseUsageLines(_)
ParseUsageLines(lines) ==
  IF lines = <<>> THEN NoUsage
  ELSE LET trimmed == Trim(Head(lines))
           data == StripPrefix(trimmed, DATA)
       IN  IF ~StartsWith(trimmed, DATA) THEN ParseUsageLines(Tail(lines))
           ELSE IF data = <<DO, NE>> THEN ParseUsageLines(Tail(lines))
           ELSE IF IsJson(data) /\ Has(JsonParse(data), "usage")
                THEN [prompt_tokens |-> Get(JsonParse(data).usage, "prompt_tokens", Null),
                      completion_tokens |-> Get(JsonParse(data).usage, "completion_tokens", Null)]
                ELSE ParseUsageLines(Tail(lines))

parseOpenAIUsageFromChunk(chunk) == ParseUsageLines(SplitLines(chunk))

\* The walk of collectTextFromEvent over the event built for one text delta,
\* { outputs: [{ type: "message", content: [{ type: "output_text", text }] }] }:
\* the only node with a text is the output_text part, kept when text.trim() is
\* not empty.
collectTextFromEvent(event) ==
  LET part == event.outputs[1].content[1]
  IN  IF part.type = "output_text" /\ ~IsBlank(part.text) THEN <<part.text>> ELSE <<>>

RECURSIVE TextFrames(_, _, _)
TextFrames(texts, idx, model) ==
  IF texts = <<>> THEN <<>>
  ELSE <<DataFrame(ChatChunk(model,
            IF idx = 0 THEN [role |-> "assistant", content |-> Head(texts)]
                       ELSE [content |-> Head(texts)],
            "null"))>>
       \o TextFrames(Tail(texts), idx + 1, model)

\* chatChunksFromResponsesEvent for the event built for one text delta: it has
\* no status and no usage, so finishReasonFromResponse and parseResponsesUsage
\* both give null.
chatChunksFromResponsesEvent(event, model) ==
  [sse |-> TextFrames(collectTextFromEvent(event), 0, model), usage |-> NoUsage]

TruncatedError ==
  [object |-> "error", message |-> "no_text_output", code |-> "OUTPUT_TRUNCATED"]

\* The parser state of one Responses stream (the closure variables of chunkToSse)
NewResponsesState(model) ==
  [kind |-> "responses", model |-> model, buffer |-> <<>>, roleSent |-> FALSE,
   doneSent |-> FALSE, finishReason |-> "null", sawText |-> FALSE]

RECURSIVE LastEventType(_, _)
LastEventType(lines, acc) ==
  IF lines = <<>> THEN acc
  ELSE LastEventType(Tail(lines),
         IF StartsWith(Head(lines), EVENT) THEN StripPrefix(Head(lines), EVENT) ELSE acc)

RECURSIVE DataLines(_)
DataLines(lines) ==
  IF lines = <<>> THEN <<>>
  ELSE IF ~StartsWith(Head(lines), EVENT) /\ StartsWith(Head(lines), DATA)
       THEN <<StripPrefix(Head(lines), DATA)>> \o DataLines(Tail(lines))
       ELSE DataLines(Tail(lines))

\* parsed?.type || eventType
PayloadType(parsed, eventType) ==
  IF Has(parsed, "type") THEN parsed.type
  ELSE IF Len(eventType) = 1 /\ eventType[1].k = "word" THEN eventType[1].w
  ELSE "null"

\* an incomplete event that always counts as a stop
IncompleteAsStop(parsed) == "stop"

\* the finish reason a response.incomplete event sets
IncompleteReason(parsed) ==
  IF Get(parsed, "reason", "null") = "max_output_tokens" THEN "length" ELSE "stop"

\* One pass of the loop body of chunkToSse over a raw event; acc is [st, sse].
ResponsesEvent(acc, rawEvent) ==
  LET st == acc.st
      lines == TrimmedLines(rawEvent)
      eventType == LastEventType(lines, <<>>)
      payloadStr == Flatten(DataLines(lines))
      parsed == JsonParse(payloadStr)
      pType == PayloadType(parsed, eventType)
      text == parsed.delta
      roleChunk == IF st.roleSent THEN <<>>
                   ELSE <<DataFrame(ChatChunk(st.model, [role |-> "assistant"], "null"))>>
      eventForDelta ==
        [outputs |-> <<[type |-> "message",
                        content |-> <<[type |-> "output_text", text |-> text]>>]>>]
  IN  IF lines = <<>> \/ DataLines(lines) = <<>> THEN acc
      ELSE IF payloadStr = <<DO, NE>> THEN acc
      ELSE IF ~IsJson(payloadStr) THEN acc
      ELSE IF pType = "response.output_text.delta" /\ Has(parsed, "delta")
           THEN [st |-> [st EXCEPT !.roleSent = TRUE, !.sawText = TRUE],
                 sse |-> acc.sse \o roleChunk
                         \o chatChunksFromResponsesEvent(eventForDelta, st.model).sse]
      ELSE IF pType = "response.incomplete"
           THEN [acc EXCEPT !.st.finishReason = IncompleteReason(parsed)]
      ELSE IF pType = "response.completed"
           THEN [acc EXCEPT !.st.finishReason =
                   IF st.finishReason = "null" THEN "stop" ELSE st.finishReason]
      ELSE acc

RECURSIVE ResponsesEvents(_, _)
ResponsesEvents(acc, events) ==
  IF events = <<>> THEN acc
  ELSE ResponsesEvents(ResponsesEvent(acc, Head(events)), Tail(events))

\* a closing step that does not look at doneSent
FinishEveryCall(acc) ==
  IF acc.st.finishReason # "null"
  THEN [st |-> [acc.st EXCEPT !.doneSent = TRUE],
        sse |-> acc.sse
                \o <<IF ~acc.st.sawText THEN DataFrame(TruncatedError)
                     ELSE DataFrame(ChatChunk(acc.st.model, NoDelta, acc.st.finishReason))>>
                \o <<DoneFrame>>]
  ELSE acc

\* if (finishReason && !doneSent) { error or finish frame; [DONE]; doneSent = true }
ResponsesFinish(acc) ==
  LET st == acc.st
  IN  IF st.finishReason # "null" /\ ~st.doneSent
      THEN [st |-> [st EXCEPT !.doneSent = TRUE],
            sse |-> acc.sse
                    \o <<IF ~st.sawText THEN DataFrame(TruncatedError)
                         ELSE DataFrame(ChatChunk(st.model, NoDelta, st.finishReason))>>
                    \o <<DoneFrame>>]
      ELSE acc

\* chunkToSse of the Responses (gpt-5) stream result
ResponsesChunkToSse(st, chunk) ==
  LET pieces == SplitBlank(st.buffer \o chunk)
      events == SubSeq(pieces, 1, Len(pieces) - 1)
      st1 == [st EXCEPT !.buffer = pieces[Len(pieces)]]
      acc == ResponsesFinish(ResponsesEvents([st |-> st1, sse |-> <<>>], events))
  IN  [st |-> acc.st,
       sse |-> IF acc.sse = <<>> THEN <<(<<>>)>> ELSE acc.sse,
       usage |-> NoUsage]

\* chunkToSse of the chat passthrough (non gpt-5) stream result
PassthroughChunkToSse(st, chunk) ==
  [st |-> st, sse |-> <<chunk>>, usage |-> parseOpenAIUsageFromChunk(chunk)]

\* parsed?.candidates?.[0]?.content?.parts?.map((p) => p?.text || "").join("") ?? ""
GoogleText(parsed) == Flatten(Get(parsed, "parts", <<>>))

RECURSIVE GoogleLines(_, _)
GoogleLines(lines, model) ==
  IF lines = <<>> THEN <<>>
  ELSE (IF IsJson(Head(lines)) /\ GoogleText(JsonParse(Head(lines))) # <<>>
        THEN <<DataFrame(ChatChunk(model,
                  [content |-> GoogleText(JsonParse(Head(lines)))], "null"))>>
        ELSE <<>>)
       \o GoogleLines(Tail(lines), model)

\* chunkToSse of the Google stream result
GoogleChunkToSse(st, chunk) ==
  [st |-> st, sse |-> GoogleLines(TrimmedLines(chunk), st.model), usage |-> NoUsage]

\* result.chunkToSse(chunk), by the adapter that built the stream result
ChunkToSse(st, chunk) ==
  CASE st.kind = "responses" -> ResponsesChunkToSse(st, chunk)
    [] st.kind = "passthrough" -> PassthroughChunkToSse(st, chunk)
    [] st.kind = "google" -> GoogleChunkToSse(st, chunk)


\* ---------------------------------------------------------------- catalog

defaultFastModelId == "gpt-5-nano-2025-08-07"
defaultSmartModelId == "gpt-5-mini-2025-08-07"

modelCatalog ==
  { [id |-> "gpt-5-nano-2025-08-07", provider |-> "openai", type |-> "chat"],
    [id |-> "gpt-5-mini-2025-08-07", provider |-> "openai", type |-> "chat"],
    [id |-> "gpt-4o-2024-08-06", provider |-> "openai", type |-> "chat"],
    [id |-> "gemini-2.0-flash-lite", provider |-> "google", type |-> "chat"],
    [id |-> "gemini-embedding-001", provider |-> "google", type |-> "embedding"] }

modelAliases ==
  [a \in {"gpt-5-nano", "gpt-5-mini"} |->
     IF a = "gpt-5-nano" THEN defaultFastModelId ELSE defaultSmartModelId]

\* -------------------------------------------------------------------- state

VARIABLES
  pc,          \* where the request's handler stands
  env,         \* process.env: OPENAI_API_KEY, GOOGLE_API_KEY, GATEWAY_MOCK
  db,          \* key store, project row
  req,         \* the inbound request
  ctx,         \* what the handler resolved: tier, routeTag, logicalModel, provider
  reply,       \* the Fastify reply: status, headers, body, sent
  raw,         \* reply.raw: head written, frames written, ended
  log,         \* the requestsLog rows
  calls,       \* provider adapter calls made
  tr,          \* the stream result's translator state (closure of chunkToSse)
  relay,       \* streamToClient's locals: tokensIn, tokensOut, hasSentDone
  chunksLeft,  \* upstream chunks the reader may still deliver
  wire,        \* the chunks the upstream body has delivered so far
  fo,          \* the failover handler's locals and the adapter calls it made
  client,      \* the downstream connection: "connected" or "gone"
  result,      \* the adapter's ChatResult
  costArgs     \* the arguments of the last calculateCost call

vars == <<pc, env, db, req, ctx, reply, raw, log, calls, tr, relay, chunksLeft, wire, fo, client,
          result, costArgs>>

NoTranslator == [kind |-> "none"]
NoResult == [kind |-> "none"]
NoCost == [called |-> FALSE]
NoCtx == [resolved |-> FALSE]
NoReq == [arrived |-> FALSE]
NoFailover ==
  [called |-> <<>>, primaryResult |-> [kind |-> "none"], primaryError |-> FALSE,
   useFallback |-> FALSE, fallbackResult |-> [kind |-> "none"],
   metadataPatch |-> [k \in {} |-> ""]]
NewRelay == [tokensIn |-> Null, tokensOut |-> Null, hasSentDone |-> FALSE]
NewRaw == [headStatus |-> Null, resolvedHeader |-> "none", writes |-> <<>>, ended |-> 0]
NewReply == [status |-> Null, resolvedHeader |-> "none", body |-> [none |-> TRUE],
             sent |-> 0]

\* ------------------------------------------------------------ upstream wire

ResponsesEventText(type, payload) ==
  <<EVENT, W(type), NL, DATA>> \o JsonStringify(payload) \o <<NL, NL>>

DeltaEvent(text) ==
  ResponsesEventText("response.output_text.delta",
                     [type |-> "response.output_text.delta", delta |-> text])

CompletedEvent ==
  ResponsesEventText("response.completed", [type |-> "response.completed"])

IncompleteEvent ==
  ResponsesEventText("response.incomplete",
                     [type |-> "response.incomplete", reason |-> "max_output_tokens"])

\* Chunks a Responses upstream may deliver: whole events, an event cut inside
\* its payload, a bare [DONE] frame, and two closing events in one chunk.
ResponsesChunks ==
  { DeltaEvent(<<"A">>), DeltaEvent(<<"LF">>), CompletedEvent, IncompleteEvent,
    DoneFrame, CompletedEvent \o IncompleteEvent,
    SubSeq(DeltaEvent(<<"B">>), 1, 5), SubSeq(DeltaEvent(<<"B">>), 6, 8) }

UpstreamChunk(delta, finishReason) == ChatChunk("upstream-snapshot", delta, finishReason)

UsageFrame ==
  DataFrame(UpstreamChunk([usage |-> [prompt_tokens |-> Some(5),
                                      completion_tokens |-> Some(3)]], "stop"))

\* Chunks a chat-completions upstream may deliver: canonical frames, a frame with
\* the usage object, that frame cut inside its payload, frames whose usage holds
\* one count only, [DONE], [DONE] cut in two, and two frames in one chunk.
PassthroughChunks ==
  { DataFrame(UpstreamChunk([content |-> <<"A">>], "null")),
    DataFrame(UpstreamChunk([content |-> <<"[DONE]">>], "null")),
    UsageFrame,
    SubSeq(UsageFrame, 1, 2), SubSeq(UsageFrame, 3, 5),
    DataFrame(UpstreamChunk([usage |-> [prompt_tokens |-> Some(7)]], "null")),
    DataFrame(UpstreamChunk([usage |-> [completion_tokens |-> Some(2)]], "null")),
    DoneFrame,
    <<DATA, DO>>, <<NE, NL, NL>>,
    DataFrame(UpstreamChunk([content |-> <<"B">>], "stop")) \o DoneFrame }

\* Chunks a Google upstream may deliver: newline-delimited fragments with text,
\* without text, and fragments that are not a JSON value on their own.
GoogleChunks ==
  { JsonStringify([parts |-> << <<"A">> >>]) \o <<NL>>,
    JsonStringify([parts |-> << <<"[DONE]">> >>]) \o <<NL>>,
    JsonStringify([finishReason |-> "STOP"]) \o <<NL>>,
    <<W("["), NL>>,
    JsonStringify([parts |-> << <<"A">>, <<"B">> >>]) \o <<NL>>
      \o JsonStringify([parts |-> << <<"LF">> >>]) \o <<NL>> }

UpstreamChunks(kind) ==
  CASE kind = "responses" -> ResponsesChunks
    [] kind = "passthrough" -> PassthroughChunks
    [] kind = "google" -> GoogleChunks
    [] OTHER -> {}

\* ------------------------------------------------------------ audit log

\* the metadata object logRequestStart builds and returns as baseMetadata
BaseMetadata(c) ==
  [ip |-> "ip", userAgent |-> "ua", routeTag |-> c.routeTag, tier |-> c.tier]

\* the absent (or empty) JSON object
NoJson == [k \in {} |-> ""]

\* mergeInputJson(base, patch): { ...base, ...patch }, the patch's keys win
mergeInputJson(base, patch) == patch @@ base

\* The row of prisma.requestsLog.create in logRequestStart.  A null column is
\* "null" (text columns) or Null (numbers); updates counts the updates applied.
NewLogRow(c) ==
  [routeTag |-> c.routeTag, tier |-> c.tier, provider |-> c.provider,
   model |-> c.logicalModel, status |-> "in_progress", httpStatus |-> Null,
   errorClass |-> "null", tokensIn |-> Null, tokensOut |-> Null,
   estimatedCostUsdc |-> Null, fallbackUsed |-> Null, retryCount |-> Null,
   metadata |-> BaseMetadata(c), updates |-> 0]

\* prisma.requestsLog.update of logRequestFinish: a property that is undefined,
\* or null and passed through "?? undefined", leaves the column as it is.
\* finishedAt and latencyMs are left out.
logRequestFinish(row, baseMetadata, data) ==
  [row EXCEPT
     !.status = data.status,
     !.httpStatus = IF Has(data, "httpStatus") THEN data.httpStatus ELSE @,
     !.errorClass = IF Get(data, "errorClass", "null") # "null" THEN data.errorClass ELSE @,
     !.tokensIn = IF Get(data, "tokensIn", Null) # Null THEN data.tokensIn ELSE @,
     !.tokensOut = IF Get(data, "tokensOut", Null) # Null THEN data.tokensOut ELSE @,
     !.estimatedCostUsdc =
        IF Get(data, "estimatedCostUsdc", Null) # Null THEN data.estimatedCostUsdc ELSE @,
     !.provider = IF Has(data, "provider") THEN data.provider ELSE @,
     !.model = IF Has(data, "model") THEN data.model ELSE @,
     !.fallbackUsed = IF Has(data, "fallbackUsed") THEN data.fallbackUsed ELSE @,
     !.retryCount = IF Has(data, "retryCount") THEN data.retryCount ELSE @,
     !.metadata =
        LET metadata == mergeInputJson(baseMetadata, Get(data, "metadataPatch", NoJson))
        IN  IF metadata = NoJson THEN @ ELSE metadata,
     !.updates = @ + 1]

\* a reverse lookup that knows no alias
NoAliasesOf(model) == <<>>

\* aliasReverseLookup[model]: the aliases of a canonical id, in insertion order
aliasReverseLookup(model) ==
  (IF modelAliases["gpt-5-nano"] = model THEN <<"gpt-5-nano">> ELSE <<>>)
  \o (IF modelAliases["gpt-5-mini"] = model THEN <<"gpt-5-mini">> ELSE <<>>)

\* providerModelPrice.findFirst({ where: { provider, model, isActive: true },
\*                                orderBy: { effectiveFrom: "desc" } })
FindPrice(prices, provider, model) ==
  LET rows == {r \in prices : r.provider = provider /\ r.model = model /\ r.isActive}
  IN  IF rows = {} THEN {}
      ELSE {CHOOSE r \in rows : \A q \in rows : q.effectiveFrom <= r.effectiveFrom}

RECURSIVE FindPriceByAlias(_, _, _)
FindPriceByAlias(prices, provider, aliases) ==
  IF aliases = <<>> THEN {}
  ELSE IF FindPrice(prices, provider, Head(aliases)) # {}
       THEN FindPrice(prices, provider, Head(aliases))
       ELSE FindPriceByAlias(prices, provider, Tail(aliases))

\* calculateCost; prices are in hundredths of a USDC per million tokens and the
\* result is in hundredths of a millionth of a USDC (the division is left out).
calculateCost(prices, provider, model, tokensIn, tokensOut) ==
  LET direct == FindPrice(prices, provider, model)
      found == IF direct # {} THEN direct
               ELSE FindPriceByAlias(prices, provider, aliasReverseLookup(model))
      price == CHOOSE r \in found : TRUE
  IN  IF tokensIn = Null /\ tokensOut = Null THEN Null
      ELSE IF found = {} THEN Null
      ELSE Some((IF tokensIn # Null THEN price.inputPerMtok * tokensIn[1] ELSE 0)
                + (IF tokensOut # Null THEN price.outputPerMtok * tokensOut[1] ELSE 0))

\* the price rows of the seed script
SeedPrices ==
  { [provider |-> "openai", model |-> "gpt-5-nano", inputPerMtok |-> 5,
     outputPerMtok |-> 40, effectiveFrom |-> 1, isActive |-> TRUE],
    [provider |-> "openai", model |-> "gpt-5-mini", inputPerMtok |-> 25,
     outputPerMtok |-> 200, effectiveFrom |-> 1, isActive |-> TRUE],
    [provider |-> "google", model |-> "gemini-2.0-flash-lite", inputPerMtok |-> 7,
     outputPerMtok |-> 30, effectiveFrom |-> 1, isActive |-> TRUE] }

\* ------------------------------------------------------------------- relay

StreamFailedError == [object |-> "error", message |-> "stream_failed"]

\* the loop over transformed.sse that rewrites the model of every JSON data frame
RewriteFrame(sse, model) ==
  IF StartsWith(Trim(sse), DATA) /\ ~IncludesDone(sse)
  THEN LET rawText == Trim(StripPrefix(sse, DATA))
       IN  IF IsJson(rawText)
           THEN DataFrame([model |-> model] @@ JsonParse(rawText))
           ELSE sse
  ELSE sse

RECURSIVE RewriteFrames(_, _)
RewriteFrames(sses, model) ==
  IF sses = <<>> THEN <<>>
  ELSE <<RewriteFrame(Head(sses), model)>> \o RewriteFrames(Tail(sses), model)

\* if (!transformed.sse.length && chunk.trim()) fall back to the raw chunk
WithRawFallback(transformed, chunk) ==
  IF transformed.sse = <<>> /\ Trim(chunk) # <<>>
  THEN [transformed EXCEPT !.sse = << <<DATA>> \o Trim(chunk) \o <<NL, NL>> >>]
  ELSE transformed

\* a count that follows the latest usage, null included
OverwriteCount(current, usage, field) == Get(usage, field, Null)

\* if (transformed.usage) { if (transformed.usage.<field> != null) count = ... }
NextCount(current, usage, field) ==
  IF Has(usage, field) /\ usage[field] # Null THEN usage[field] ELSE current

\* the body of the read loop of streamToClient for one chunk, on the closure
\* state st of the result's chunkToSse and the loop's locals rl: the new closure
\* state, the new locals and the frames written
RelayStep(st, rl, model, chunk) ==
  LET transformed == WithRawFallback(ChunkToSse(st, chunk), chunk)
      rewrittenSse == RewriteFrames(transformed.sse, model)
      wroteDone == \E i \in 1..Len(rewrittenSse) : IncludesDone(rewrittenSse[i])
      u == transformed.usage
  IN  [tr |-> transformed.st,
       sse |-> rewrittenSse,
       relay |-> [tokensIn |-> NextCount(rl.tokensIn, u, "prompt_tokens"),
                  tokensOut |-> NextCount(rl.tokensOut, u, "completion_tokens"),
                  hasSentDone |-> rl.hasSentDone \/ wroteDone \/ IncludesDone(chunk)]]

RelayChunk(chunk) ==
  LET step == RelayStep(tr, relay, ctx.logicalModel, chunk)
  IN  /\ tr' = step.tr
      /\ raw' = [raw EXCEPT !.writes = raw.writes \o step.sse]
      /\ relay' = step.relay

ReadChunk ==
  /\ pc = "reading"
  /\ chunksLeft > 0
  /\ \E chunk \in UpstreamChunks(tr.kind) :
       /\ RelayChunk(chunk)
       /\ wire' = Append(wire, chunk)
  /\ chunksLeft' = chunksLeft - 1
  /\ UNCHANGED <<pc, env, db, req, ctx, reply, log, calls, result, costArgs, fo, client>>

\* reader.read() gives done: the loop ends, [DONE] is written unless sent, end()
ReadEnd ==
  /\ pc = "reading"
  /\ raw' = [raw EXCEPT
               !.writes = IF relay.hasSentDone THEN @ ELSE @ \o <<DoneFrame>>,
               !.ended = @ + 1]
  /\ pc' = "close_success"
  /\ UNCHANGED <<env, db, req, ctx, reply, log, calls, tr, relay, chunksLeft, wire, fo, client,
                 result, costArgs>>

\* a catch block that writes its frames and leaves the connection open
CatchWithoutEnd ==
  /\ pc = "reading"
  /\ raw' = [raw EXCEPT !.writes = @ \o <<DataFrame(StreamFailedError), DoneFrame>>]
  /\ pc' = "close_failed"
  /\ UNCHANGED <<env, db, req, ctx, reply, log, calls, tr, relay, chunksLeft, wire, fo, client,
                 result, costArgs>>

\* reader.read() throws: the catch block writes the error frame, [DONE], end()
ReadThrows ==
  /\ pc = "reading"
  /\ raw' = [raw EXCEPT
               !.writes = @ \o <<DataFrame(StreamFailedError), DoneFrame>>,
               !.ended = @ + 1]
  /\ pc' = "close_failed"
  /\ UNCHANGED <<env, db, req, ctx, reply, log, calls, tr, relay, chunksLeft, wire, fo, client,
                 result, costArgs>>


\* the client closes its connection while the stream is relayed; streamToClient
\* registers no close or abort listener and passes no signal to the reader, so
\* nothing of the handler's state changes
ClientDisconnect ==
  /\ pc \in {"reading", "fo_reading"}
  /\ client = "connected"
  /\ client' = "gone"
  /\ UNCHANGED <<pc, env, db, req, ctx, reply, raw, log, calls, tr, relay, chunksLeft, wire, fo, result, costArgs>>

\* ----------------------------------------------------------- request inputs

\* body.model: "" stands for an absent (or empty) model
RequestedModels ==
  { "", "gpt-5-nano", "gpt-5-nano-2025-08-07", "gpt-5-mini", "gpt-4o-2024-08-06",
    "gemini-2.0-flash-lite", "gemini-embedding-001", "not-a-model" }

\* header values; "none" stands for an absent header
TierHeaders == {"none", "smart", "SMART", "fast"}
RouteTagHeaders == {"none", "critical", "batch"}

\* project rows getProjectSettings may read; exists = FALSE is a missing row
AllowedLists ==
  { <<>>,
    <<"gpt-5-nano", "gemini-2.0-flash-lite", "gemini-embedding-001", "not-a-model">>,
    <<"gpt-5-mini-2025-08-07", "gpt-4o-2024-08-06">> }

ProjectRows ==
  {[exists |-> FALSE]}
  \cup [exists : {TRUE}, defaultTier : {"fast", "SMART", "turbo"},
        allowAllModels : {FALSE}, allowedModels : AllowedLists]
  \cup [exists : {TRUE}, defaultTier : {"fast", "SMART", "turbo"},
        allowAllModels : {TRUE}, allowedModels : {<<>>}]
  \cup {[exists |-> TRUE, defaultTier |-> "fast", allowAllModels |-> TRUE,
         allowedModels |-> <<"gpt-5-mini-2025-08-07", "not-a-model">>]}

\* s.toLowerCase() on the header and tier values above
ToLowerCase(s) ==
  CASE s = "SMART" -> "smart"
    [] OTHER -> s

\* --------------------------------------------------------- policy resolver

normalizeTier(input) ==
  IF input = "" THEN "FAST"
  ELSE IF ToLowerCase(input) = "smart" THEN "SMART"
  ELSE "FAST"

\* a normalisation that turns the FAST default id back into its alias
NormalizeToAlias(input) ==
  [canonical |-> IF input = "gpt-5-nano-2025-08-07" THEN "gpt-5-nano" ELSE input,
   aliasOf |-> ""]

\* normalizeModelId(input): "" stands for null
normalizeModelId(input) ==
  IF input = "" THEN [canonical |-> "", aliasOf |-> ""]
  ELSE LET canonical == IF input \in DOMAIN modelAliases THEN modelAliases[input] ELSE input
       IN  [canonical |-> canonical,
            aliasOf |-> IF input \in DOMAIN modelAliases THEN canonical ELSE ""]

ModelIdsOfType(type) == {m.id : m \in {e \in modelCatalog : e.type = type}}

\* the explicit list alone, whatever the allow-all flag says
ExplicitListOnly(project, type) ==
  {normalizeModelId(project.allowedModels[i]).canonical :
     i \in 1..Len(project.allowedModels)} \cap ModelIdsOfType(type)

getAllowedModelsSet(project, type) ==
  IF project.allowAllModels THEN ModelIdsOfType(type)
  ELSE {normalizeModelId(project.allowedModels[i]).canonical :
          i \in 1..Len(project.allowedModels)} \cap ModelIdsOfType(type)

\* modelCatalogById.get(id): the set holding the entry, or {}
CatalogEntry(id) == {m \in modelCatalog : m.id = id}

\* the default accepted on its catalog entry and type, the allowed set unread
EntryOfTypeOnly(modelId, allowedModels, type) ==
  {m \in CatalogEntry(modelId) : m.type = type}

\* ensureModelAllowed(modelId, allowedModels, type, reply): the entry, or {} with
\* the 400 MODEL_NOT_ALLOWED reply
ensureModelAllowed(modelId, allowedModels, type) ==
  {m \in CatalogEntry(modelId) : m.type = type /\ modelId \in allowedModels}

\* ------------------------------------------------------------- HTTP replies

ErrorBody(message, type, code) ==
  [error |-> [message |-> message, type |-> type, code |-> code]]

\* the 401 body when no credential is presented
MissingKeyBody ==
  ErrorBody("Incorrect API key provided", "invalid_request_error", "invalid_api_key")

\* a 401 body that names the key's status
KeyDisabledBody ==
  ErrorBody("API key has been disabled", "invalid_request_error", "api_key_disabled")

\* the 401 body when no key has the hash, or the key found is not ACTIVE
InvalidKeyBody ==
  ErrorBody("Incorrect API key provided", "invalid_request_error", "invalid_api_key")

ModelNotAllowedBody ==
  ErrorBody("model not allowed/available", "invalid_request_error", "MODEL_NOT_ALLOWED")

\* reply.status(status).send(body) prepared; SendReply completes it
Respond(status, body) == [reply EXCEPT !.status = Some(status), !.body = body]

\* ------------------------------------------------------------- pre-handler

\* the dashboard's disableApiKey: the key's row gets status DISABLED
DisableKey ==
  /\ db.keyStatus = "ACTIVE"
  /\ db' = [db EXCEPT !.keyStatus = "DISABLED"]
  /\ UNCHANGED <<pc, env, req, ctx, reply, raw, log, calls, tr, relay, chunksLeft, wire, fo, client,
                 result, costArgs>>

\* a lookup that accepts every key it finds, whatever its status
LookupAnyStatus ==
  /\ pc = "idle"
  /\ \E cred \in {"none", "unknown", "key"} :
       /\ req' = [arrived |-> TRUE, cred |-> cred,
                  apiKey |-> IF cred = "key" THEN "ACTIVE" ELSE "none",
                  authContext |-> cred = "key"]
       /\ IF cred = "key"
          THEN /\ pc' = "stamp"
               /\ reply' = reply
          ELSE /\ pc' = "send"
               /\ reply' = Respond(401, IF cred = "none" THEN MissingKeyBody
                                        ELSE InvalidKeyBody)
  /\ UNCHANGED <<env, db, ctx, raw, log, calls, tr, relay, chunksLeft, wire, fo, client, result, costArgs>>

\* apiKeyPreHandler up to the lastUsedAt update: extractApiKey, findFirst by
\* hash (apiKey is the row's status, or "none"), the 401 replies, authContext
ApiKeyLookup ==
  /\ pc = "idle"
  /\ \E cred \in {"none", "unknown", "key"} :
       LET apiKey == IF cred = "key" THEN db.keyStatus ELSE "none"
       IN  /\ req' = [arrived |-> TRUE, cred |-> cred, apiKey |-> apiKey,
                      authContext |-> apiKey = "ACTIVE"]
           /\ IF apiKey = "ACTIVE"
              THEN /\ pc' = "stamp"
                   /\ reply' = reply
              ELSE /\ pc' = "send"
                   /\ reply' = Respond(401, IF cred = "none" THEN MissingKeyBody
                                            ELSE InvalidKeyBody)
  /\ UNCHANGED <<env, db, ctx, raw, log, calls, tr, relay, chunksLeft, wire, fo, client, result, costArgs>>

\* await prisma.apiKey.update({ data: { lastUsedAt } }): a failed write rejects
\* the pre-handler and Fastify answers 500
ApiKeyStamp ==
  /\ pc = "stamp"
  /\ \E writeOk \in BOOLEAN :
       IF writeOk
       THEN /\ db' = [db EXCEPT !.lastUsedStamped = TRUE]
            /\ pc' = "handler"
            /\ reply' = reply
       ELSE /\ db' = db
            /\ pc' = "send"
            /\ reply' = Respond(500, ErrorBody("lastUsedAt update failed",
                                               "internal_server_error", "none"))
  /\ UNCHANGED <<env, req, ctx, raw, log, calls, tr, relay, chunksLeft, wire, fo, client, result, costArgs>>

\* reply.send completes the HTTP response
SendReply ==
  /\ pc = "send"
  /\ reply' = [reply EXCEPT !.sent = @ + 1]
  /\ pc' = "done"
  /\ UNCHANGED <<env, db, req, ctx, raw, log, calls, tr, relay, chunksLeft, wire, fo, client, result, costArgs>>

\* ----------------------------------------------- POST /v1/chat/completions

\* the body check, then await getProjectSettings
ChatValidate ==
  /\ pc = "handler"
  /\ \E bodyOk \in BOOLEAN :
       /\ req' = req @@ [bodyOk |-> bodyOk]
       /\ IF bodyOk
          THEN /\ pc' = "resolve"
               /\ reply' = reply
          ELSE /\ pc' = "send"
               /\ reply' = Respond(400, ErrorBody("messages array is required",
                                                  "invalid_request_error", "none"))
  /\ UNCHANGED <<env, db, ctx, raw, log, calls, tr, relay, chunksLeft, wire, fo, client, result, costArgs>>

\* the tier taken from the project row alone, whatever the request headers say
TierOfProjectOnly(tierHeader, routeTagHeader, defaultTier) == defaultTier

\* tierHeader === "smart" || routeTagHeader === "critical" ? "SMART" : defaultTier
RequestTier(tierHeader, routeTagHeader, defaultTier) ==
  IF ToLowerCase(tierHeader) = "smart" \/ ToLowerCase(routeTagHeader) = "critical"
  THEN "SMART" ELSE defaultTier

\* tier === "SMART" ? defaultSmartModelId : defaultFastModelId
TierDefaultModel(tier) ==
  IF tier = "SMART" THEN defaultSmartModelId ELSE defaultFastModelId

\* a named model accepted on its catalog entry alone
AnyCatalogModel(logicalModel, allowedModels) == CatalogEntry(logicalModel)

\* the check of a named model: modelCatalogById.get(logicalModel), its type and
\* allowedModels.has(logicalModel); the entry, or {} with the 400 reply
NamedModelEntry(logicalModel, allowedModels) ==
  {m \in CatalogEntry(logicalModel) : m.type = "chat" /\ logicalModel \in allowedModels}

\* the header announcing the FAST default whatever model was resolved
HeaderOfFastDefault(aliasOf, resolvedModel, logicalModel) == defaultFastModelId

\* reply.header("x-optyx-resolved-model", aliasOf ? resolvedModel : logicalModel)
ResolvedModelHeader(aliasOf, resolvedModel, logicalModel) ==
  IF aliasOf # "" THEN resolvedModel ELSE logicalModel

\* tier, routeTag, logicalModel, provider and header for a request and project
Resolve(project, requestedModel, tierHeader, routeTagHeader) ==
  LET defaultTier == normalizeTier(project.defaultTier)
      allowedModels == getAllowedModelsSet(project, "chat")
      tier == RequestTier(tierHeader, routeTagHeader, defaultTier)
      routeTag == IF routeTagHeader # "none" THEN ToLowerCase(routeTagHeader)
                  ELSE IF tier = "SMART" THEN "critical" ELSE "fast"
      norm == normalizeModelId(requestedModel)
      logicalModel == IF requestedModel # "" THEN norm.canonical
                      ELSE TierDefaultModel(tier)
      entry == IF requestedModel # ""
               THEN NamedModelEntry(logicalModel, allowedModels)
               ELSE ensureModelAllowed(logicalModel, allowedModels, "chat")
  IN  [resolved |-> entry # {},
       tier |-> tier, routeTag |-> routeTag, logicalModel |-> logicalModel,
       provider |-> IF entry = {} THEN "none" ELSE (CHOOSE m \in entry : TRUE).provider,
       header |-> ResolvedModelHeader(norm.aliasOf, norm.canonical, logicalModel),
       allowedModels |-> allowedModels]

\* after getProjectSettings: 404, or model resolution up to the resolved-model
\* header; then await logRequestStart
ChatResolve ==
  /\ pc = "resolve"
  /\ \E project \in ProjectRows, model \in RequestedModels,
        tierHeader \in TierHeaders, routeTagHeader \in RouteTagHeaders :
       /\ db' = [db EXCEPT !.project = project]
       /\ req' = req @@ [model |-> model, tierHeader |-> tierHeader,
                         routeTagHeader |-> routeTagHeader]
       /\ IF ~project.exists
          THEN /\ pc' = "send"
               /\ reply' = Respond(404, ErrorBody("Project not found", "none", "none"))
               /\ ctx' = ctx
          ELSE LET r == Resolve(project, model, tierHeader, routeTagHeader)
               IN  IF r.resolved
                   THEN /\ pc' = "log_start"
                        /\ reply' = [reply EXCEPT !.resolvedHeader = r.header]
                        /\ ctx' = r
                   ELSE /\ pc' = "send"
                        /\ reply' = Respond(400, ModelNotAllowedBody)
                        /\ ctx' = ctx
  /\ UNCHANGED <<env, raw, log, calls, tr, relay, chunksLeft, wire, fo, client, result, costArgs>>

\* await logRequestStart: the in_progress row
LogRequestStart ==
  /\ pc = "log_start"
  /\ log' = Append(log, NewLogRow(ctx))
  /\ pc' = "provider_key"
  /\ UNCHANGED <<env, db, req, ctx, reply, raw, calls, tr, relay, chunksLeft, wire, fo, client,
                 result, costArgs>>

\* a handler path that returns without its terminal update
ReturnWithoutUpdate(data) == log' = log

\* await logRequestFinish(logId, baseMetadata, data) on the request's row
CloseLog(data) ==
  log' = [log EXCEPT ![Len(log)] = logRequestFinish(@, BaseMetadata(ctx), data)]

\* the provider credential check
\* a test that looks at the OpenAI credential only
OpenAIKeyMissing(provider) == provider = "openai" /\ ~env.OPENAI_API_KEY

\* (provider === "openai" && !process.env.OPENAI_API_KEY) ||
\* (provider === "google" && !process.env.GOOGLE_API_KEY)
providerKeyMissing(provider) ==
  \/ (provider = "openai" /\ ~env.OPENAI_API_KEY)
  \/ (provider = "google" /\ ~env.GOOGLE_API_KEY)

CheckProviderKey ==
  /\ pc = "provider_key"
  /\ IF providerKeyMissing(ctx.provider)
     THEN /\ CloseLog([status |-> "error", httpStatus |-> Some(500),
                       errorClass |-> "missing_provider_api_key"])
          /\ reply' = Respond(500, ErrorBody("Provider API key is not configured",
                                             "config_error", "none"))
          /\ pc' = "send"
     ELSE /\ pc' = "call"
          /\ UNCHANGED <<log, reply>>
  /\ UNCHANGED <<env, db, req, ctx, raw, calls, tr, relay, chunksLeft, wire, fo, client, result, costArgs>>


\* ----------------------------------------------------------------- adapters

\* params.model.startsWith("gpt-5")
IsGpt5(model) == model \in {"gpt-5-nano-2025-08-07", "gpt-5-mini-2025-08-07"}

\* s.toLowerCase().includes("model"), on the error texts an upstream sends here
IncludesModel(s) ==
  s \in {"The model does not exist or you do not have access to it", "model_not_found"}

modelNotAllowedError(body) ==
  /\ Has(body, "error")
  /\ \/ IncludesModel(Get(body.error, "type", ""))
     \/ IncludesModel(Get(body.error, "message", ""))

UsageOf(p, c) == [prompt_tokens |-> p, completion_tokens |-> c]

\* JSON bodies of upstream HTTP responses to a non-streaming call
UpstreamErrors ==
  { [status |-> 400, json |-> [error |-> [message |->
        "The model does not exist or you do not have access to it",
        type |-> "invalid_request_error"]]],
    [status |-> 429, json |-> [error |-> [message |-> "Rate limit reached",
                                         type |-> "rate_limit_error"]]],
    [status |-> 503, json |-> [error |-> [message |-> "Service unavailable",
                                         type |-> "server_error"]]] }

ChatCompletionsResponses ==
  { [status |-> 200, json |-> [object |-> "chat.completion", model |-> "upstream-snapshot",
                               content |-> <<"A">>, usage |-> UsageOf(Some(5), Some(3))]],
    [status |-> 200, json |-> [object |-> "chat.completion", model |-> "upstream-snapshot",
                               content |-> <<"A">>]] }
  \cup UpstreamErrors

ResponsesApiResponses ==
  { [status |-> 200, json |-> [status |-> "completed", output_text |-> <<"A">>,
                               usage |-> [input_tokens |-> Some(5), output_tokens |-> Some(3)]]],
    [status |-> 200, json |-> [status |-> "completed",
                               output |-> <<[type |-> "message",
                                             content |-> <<[type |-> "output_text",
                                                            text |-> <<"A", "LF", "B">>]>>]>>]],
    [status |-> 200, json |-> [status |-> "incomplete", reason |-> "max_output_tokens",
                               output |-> <<[type |-> "reasoning", content |-> <<>>]>>,
                               usage |-> [input_tokens |-> Some(5), output_tokens |-> Some(0)]]],
    [status |-> 200, json |-> [status |-> "failed", output_text |-> <<" ">>]] }
  \cup UpstreamErrors

GoogleResponses ==
  { [status |-> 200, json |-> [parts |-> << <<"A">>, <<"B">> >>]],
    [status |-> 200, json |-> [finishReason |-> "SAFETY"]] }
  \cup UpstreamErrors

RECURSIVE PartTexts(_)
PartTexts(parts) ==
  IF parts = <<>> THEN <<>>
  ELSE (IF Has(Head(parts), "text") /\ ~IsBlank(Head(parts).text)
        THEN <<Head(parts).text>> ELSE <<>>)
       \o PartTexts(Tail(parts))

RECURSIVE OutputItemsText(_)
OutputItemsText(items) ==
  IF items = <<>> THEN <<>>
  ELSE LET texts == PartTexts(Get(Head(items), "content", <<>>))
       IN  IF texts # <<>>
           THEN IF Get(Head(items), "type", "") = "message" THEN Flatten(texts) ELSE texts[1]
           ELSE OutputItemsText(Tail(items))

\* extractResponseText over the shapes output_text and output[].content[].text
extractResponseText(json) ==
  IF Has(json, "output_text") /\ ~IsBlank(json.output_text) THEN json.output_text
  ELSE OutputItemsText(Get(json, "output", <<>>))

\* finishReasonFromResponse(event): status_details.reason is flattened to reason
finishReasonFromResponse(event) ==
  LET status == Get(event, "status", "null")
      reason == Get(event, "reason", "null")
  IN  IF reason = "max_output_tokens" THEN "length"
      ELSE IF reason = "stop" THEN "stop"
      ELSE IF status = "completed" THEN "stop"
      ELSE IF status = "incomplete" THEN "length"
      ELSE "null"

FirstNonNull(a, b) == IF a # Null THEN a ELSE b

parseResponsesUsage(obj) ==
  IF ~Has(obj, "usage") THEN NoUsage
  ELSE LET u == obj.usage
       IN  UsageOf(FirstNonNull(Get(u, "input_tokens", Null),
                                FirstNonNull(Get(u, "prompt_tokens", Null),
                                             Get(u, "total_tokens", Null))),
                   FirstNonNull(Get(u, "output_tokens", Null),
                                Get(u, "completion_tokens", Null)))

\* a non-streaming branch that passes the upstream's status on with whatever
\* text was found
ResponsesJsonAsIs(resp, model) ==
  [kind |-> "json", provider |-> "openai", model |-> model, status |-> resp.status,
   body |-> [object |-> "chat.completion", model |-> model,
             content |-> extractResponseText(resp.json),
             finish_reason |-> Get(resp.json, "finish_reason", "stop")],
   usage |-> parseResponsesUsage(resp.json)]

\* the non-streaming branch of the OpenAI adapter for a gpt-5 model
ResponsesJsonResult(resp, model) ==
  LET text == extractResponseText(resp.json)
      finishReason == finishReasonFromResponse(resp.json)
      status == IF text # <<>> /\ resp.status < 300 THEN resp.status
                ELSE IF finishReason \in {"length", "incomplete"} THEN 422
                ELSE 502
  IN  [kind |-> "json", provider |-> "openai", model |-> model, status |-> status,
       body |-> IF text # <<>> /\ status < 300
                THEN [object |-> "chat.completion", model |-> model, content |-> text,
                      finish_reason |-> Get(resp.json, "finish_reason", "stop")]
                ELSE ErrorBody("Upstream returned no text output", "invalid_request_error",
                               "OUTPUT_TRUNCATED"),
       usage |-> parseResponsesUsage(resp.json)]

\* the non-streaming branch of the OpenAI adapter for other models
ChatJsonResult(resp, model) ==
  [kind |-> "json", provider |-> "openai", model |-> model, status |-> resp.status,
   body |-> resp.json,
   usage |-> IF Has(resp.json, "usage")
             THEN UsageOf(Get(resp.json.usage, "prompt_tokens", Null),
                          Get(resp.json.usage, "completion_tokens", Null))
             ELSE NoUsage]

\* the non-streaming branch of the Google adapter (googleToOpenAIResponse)
GoogleJsonResult(resp, model) ==
  [kind |-> "json", provider |-> "google", model |-> model, status |-> resp.status,
   body |-> [object |-> "chat.completion", model |-> model,
             content |-> GoogleText(resp.json), finish_reason |-> "stop"],
   usage |-> IF Has(resp.json, "usage") THEN resp.json.usage ELSE NoUsage]

\* the upstream HTTP responses to a streaming call: a stream, or an error body
StreamResponses ==
  {[status |-> 200, ok |-> TRUE, json |-> [none |-> TRUE]]}
  \cup {[status |-> e.status, ok |-> FALSE, json |-> e.json] : e \in UpstreamErrors}
  \cup {[status |-> 502, ok |-> FALSE, json |-> [none |-> TRUE]]}

TranslatorKind(provider, model) ==
  IF provider = "google" THEN "google"
  ELSE IF IsGpt5(model) THEN "responses"
  ELSE "passthrough"

\* the closure state chunkToSse starts with
NewTranslator(provider, model) ==
  IF TranslatorKind(provider, model) = "responses" THEN NewResponsesState(model)
  ELSE [kind |-> TranslatorKind(provider, model), model |-> model]

\* adapters[provider].chatCompletions({ body, stream, model }): the results it
\* can return, over the upstream's possible responses
AdapterResults(provider, model, stream) ==
  IF stream
  THEN {[kind |-> "stream", provider |-> provider, model |-> model, response |-> r] :
          r \in StreamResponses}
  ELSE CASE TranslatorKind(provider, model) = "google" ->
              {GoogleJsonResult(r, model) : r \in GoogleResponses}
         [] TranslatorKind(provider, model) = "responses" ->
              {ResponsesJsonResult(r, model) : r \in ResponsesApiResponses}
         [] OTHER -> {ChatJsonResult(r, model) : r \in ChatCompletionsResponses}

mockChatResult(model, provider) ==
  [kind |-> "json", provider |-> provider, model |-> model, status |-> 200,
   body |-> [object |-> "chat.completion", model |-> model, content |-> <<"hello">>,
             finish_reason |-> "stop", usage |-> UsageOf(Some(5), Some(3))],
   usage |-> UsageOf(Some(5), Some(3))]


\* --------------------------------------------- handler: call and dispatch

\* GATEWAY_MOCK with a streaming body: the handler streams three fixed chunks
\* and [DONE] itself and ends the connection
MockStreamWrite ==
  /\ pc = "call"
  /\ env.GATEWAY_MOCK
  /\ req' = req @@ [stream |-> TRUE]
  /\ raw' = [headStatus |-> Some(200), resolvedHeader |-> reply.resolvedHeader,
             writes |-> << DataFrame(ChatChunk(ctx.logicalModel, [content |-> <<"A">>], "null")),
                           DataFrame(ChatChunk(ctx.logicalModel, [content |-> <<"B">>], "null")),
                           DataFrame(ChatChunk(ctx.logicalModel, NoDelta, "stop")),
                           DoneFrame >>,
             ended |-> raw.ended + 1]
  /\ pc' = "mock_close"
  /\ UNCHANGED <<env, db, ctx, reply, log, calls, tr, relay, chunksLeft, wire, fo, client, result, costArgs>>

MockStreamClose ==
  /\ pc = "mock_close"
  /\ costArgs' = [called |-> TRUE, provider |-> ctx.provider, model |-> ctx.logicalModel,
                  tokensIn |-> Some(5), tokensOut |-> Some(3)]
  /\ CloseLog([status |-> "success", httpStatus |-> Some(200), tokensIn |-> Some(5),
               tokensOut |-> Some(3),
               estimatedCostUsdc |-> calculateCost(db.prices, ctx.provider,
                                                   ctx.logicalModel, Some(5), Some(3)),
               provider |-> ctx.provider, model |-> ctx.logicalModel,
               fallbackUsed |-> Some(FALSE), retryCount |-> Some(0)])
  /\ pc' = "done"
  /\ UNCHANGED <<env, db, req, ctx, reply, raw, calls, tr, relay, chunksLeft, wire, fo, client, result>>

\* mockChatResult, or adapter.chatCompletions inside try/catch
CallAdapter ==
  /\ pc = "call"
  /\ \E stream \in BOOLEAN :
       /\ ~(env.GATEWAY_MOCK /\ stream)
       /\ req' = req @@ [stream |-> stream]
       /\ IF env.GATEWAY_MOCK
          THEN /\ result' = mockChatResult(ctx.logicalModel, ctx.provider)
               /\ pc' = "dispatch"
               /\ UNCHANGED <<calls, log, reply>>
          ELSE /\ calls' = calls + 1
               /\ \/ /\ \E r \in AdapterResults(ctx.provider, ctx.logicalModel, stream) :
                          result' = r
                     /\ pc' = "dispatch"
                     /\ UNCHANGED <<log, reply>>
                  \/ /\ CloseLog([status |-> "error", httpStatus |-> Some(500),
                                  errorClass |-> "upstream_fetch_failed"])
                     /\ reply' = Respond(500, ErrorBody("Upstream request failed",
                                                        "internal_error", "none"))
                     /\ pc' = "send"
                     /\ result' = result
  /\ UNCHANGED <<env, db, ctx, raw, tr, relay, chunksLeft, wire, fo, client, costArgs>>

IsUpstreamModelNotAllowed(res) ==
  /\ res.kind = "json"
  /\ res.status >= 400
  /\ res.status < 500
  /\ modelNotAllowedError(res.body)

\* a 4xx JSON result with model-shaped error text
UpstreamModelNotAllowed ==
  /\ pc = "dispatch"
  /\ IsUpstreamModelNotAllowed(result)
  /\ CloseLog([status |-> "error", httpStatus |-> Some(result.status),
               errorClass |-> "MODEL_NOT_ALLOWED"])
  /\ reply' = Respond(400, ErrorBody("Requested model is not allowed by upstream provider",
                                     "invalid_request_error", "MODEL_NOT_ALLOWED"))
  /\ pc' = "send"
  /\ UNCHANGED <<env, db, req, ctx, raw, calls, tr, relay, chunksLeft, wire, fo, client, result, costArgs>>

\* providerUsed = primaryResult.provider || provider; modelUsed = logicalModel
ProviderUsed == result.provider
ModelUsed == ctx.logicalModel

\* { ...result.body, model } for an object body
JsonResponseBody(body, model) == [model |-> model] @@ body

\* handleChatJson: calculateCost, logRequestFinish, then the reply
HandleChatJson ==
  /\ pc = "dispatch"
  /\ result.kind = "json"
  /\ ~IsUpstreamModelNotAllowed(result)
  /\ LET tokensIn == Get(result.usage, "prompt_tokens", Null)
         tokensOut == Get(result.usage, "completion_tokens", Null)
         ok == result.status >= 200 /\ result.status < 300
     IN  /\ costArgs' = [called |-> TRUE, provider |-> ProviderUsed, model |-> ModelUsed,
                         tokensIn |-> tokensIn, tokensOut |-> tokensOut]
         /\ CloseLog([status |-> IF ok THEN "success" ELSE "error",
                      httpStatus |-> Some(result.status),
                      errorClass |-> IF ok THEN "null"
                                     ELSE IF Has(result.body, "error")
                                          THEN Get(result.body.error, "type", "upstream_error")
                                          ELSE "upstream_error",
                      tokensIn |-> tokensIn, tokensOut |-> tokensOut,
                      estimatedCostUsdc |-> calculateCost(db.prices, ProviderUsed, ModelUsed,
                                                          tokensIn, tokensOut),
                      provider |-> ProviderUsed, model |-> ModelUsed,
                      fallbackUsed |-> Some(FALSE), retryCount |-> Some(0)])
  /\ reply' = Respond(result.status, JsonResponseBody(result.body, ModelUsed))
  /\ pc' = "send"
  /\ UNCHANGED <<env, db, req, ctx, raw, calls, tr, relay, chunksLeft, wire, fo, client, result>>

\* streamToClient, !result.response.ok: the row is closed and the upstream's
\* status and body are answered
StreamNonOk ==
  /\ pc = "dispatch"
  /\ result.kind = "stream"
  /\ ~result.response.ok
  /\ LET responseJson == result.response.json
     IN  /\ CloseLog([status |-> "error", httpStatus |-> Some(result.response.status),
                      errorClass |-> IF Has(responseJson, "error")
                                     THEN Get(responseJson.error, "type", "upstream_error")
                                     ELSE "upstream_error",
                      provider |-> ProviderUsed, model |-> ModelUsed,
                      fallbackUsed |-> Some(FALSE), retryCount |-> Some(0)])
         /\ reply' = Respond(result.response.status,
                             IF Has(responseJson, "none")
                             THEN ErrorBody("Upstream error", "none", "none")
                             ELSE responseJson)
  /\ pc' = "send"
  /\ UNCHANGED <<env, db, req, ctx, raw, calls, tr, relay, chunksLeft, wire, fo, client, result, costArgs>>

\* the initial empty chunk of streamToClient
InitialChunk(model) == DataFrame(ChatChunk(model, NoDelta, "null"))

\* streamToClient, response ok: writeHead(200), the initial empty chunk, getReader
StreamBegin ==
  /\ pc = "dispatch"
  /\ result.kind = "stream"
  /\ result.response.ok
  /\ raw' = [raw EXCEPT !.headStatus = Some(200),
                        !.resolvedHeader = reply.resolvedHeader,
                        !.writes = <<InitialChunk(ModelUsed)>>]
  /\ tr' = NewTranslator(result.provider, result.model)
  /\ relay' = NewRelay
  /\ pc' = "reading"
  /\ UNCHANGED <<env, db, req, ctx, reply, log, calls, chunksLeft, wire, fo, client, result, costArgs>>

\* a close that records an error when the translator reported no text output
CloseTruncatedAsError ==
  /\ pc = "close_success"
  /\ IF tr.kind = "responses" /\ tr.doneSent /\ ~tr.sawText
     THEN CloseLog([status |-> "error", httpStatus |-> Some(502),
                    errorClass |-> "OUTPUT_TRUNCATED"])
     ELSE CloseLog([status |-> "success", httpStatus |-> Some(200),
                    tokensIn |-> relay.tokensIn, tokensOut |-> relay.tokensOut])
  /\ pc' = "done"
  /\ UNCHANGED <<env, db, req, ctx, reply, raw, calls, tr, relay, chunksLeft, wire, fo, client,
                 result, costArgs>>

\* after the loop: calculateCost and the success update
StreamCloseSuccess ==
  /\ pc = "close_success"
  /\ costArgs' = [called |-> TRUE, provider |-> ProviderUsed, model |-> ModelUsed,
                  tokensIn |-> relay.tokensIn, tokensOut |-> relay.tokensOut]
  /\ CloseLog([status |-> "success", httpStatus |-> Some(200),
               tokensIn |-> relay.tokensIn, tokensOut |-> relay.tokensOut,
               estimatedCostUsdc |-> calculateCost(db.prices, ProviderUsed, ModelUsed,
                                                   relay.tokensIn, relay.tokensOut),
               provider |-> ProviderUsed, model |-> ModelUsed,
               fallbackUsed |-> Some(FALSE), retryCount |-> Some(0)])
  /\ pc' = "done"
  /\ UNCHANGED <<env, db, req, ctx, reply, raw, calls, tr, relay, chunksLeft, wire, fo, client, result>>

\* the catch block's update
StreamCloseFailed ==
  /\ pc = "close_failed"
  /\ CloseLog([status |-> "error", httpStatus |-> Some(500), errorClass |-> "stream_failed",
               provider |-> ProviderUsed, model |-> ModelUsed,
               fallbackUsed |-> Some(FALSE), retryCount |-> Some(0)])
  /\ pc' = "done"
  /\ UNCHANGED <<env, db, req, ctx, reply, raw, calls, tr, relay, chunksLeft, wire, fo, client, result,
                 costArgs>>

\* ------------------------------------------------------ POST /v1/embeddings

EMBEDDING_DEFAULT_MODEL == "gemini-embedding-001"

\* body.model of an embeddings request: "" stands for an absent model
EmbeddingModels == {"", "gemini-embedding-001", "gpt-5-nano", "not-a-model"}

\* the handler up to await logRequestStart: the model, getProjectSettings (404),
\* ensureModelAllowed (400), the GOOGLE_API_KEY check (500)
EmbedResolve ==
  /\ pc = "handler"
  /\ \E project \in ProjectRows, bodyModel \in EmbeddingModels :
       LET model == IF bodyModel = "" THEN EMBEDDING_DEFAULT_MODEL ELSE bodyModel
           embeddingAllowed ==
             IF project.exists
             THEN ensureModelAllowed(model, getAllowedModelsSet(project, "embedding"),
                                     "embedding")
             ELSE {}
       IN  /\ db' = [db EXCEPT !.project = project]
           /\ req' = req @@ [embeddingModel |-> bodyModel]
           /\ IF ~project.exists
              THEN /\ reply' = Respond(404, ErrorBody("Project not found", "none", "none"))
                   /\ pc' = "send"
                   /\ ctx' = ctx
              ELSE IF embeddingAllowed = {}
              THEN /\ reply' = Respond(400, ModelNotAllowedBody)
                   /\ pc' = "send"
                   /\ ctx' = ctx
              ELSE IF ~env.GOOGLE_API_KEY
              THEN /\ reply' = Respond(500, ErrorBody("GOOGLE_API_KEY is not configured",
                                                      "config_error", "none"))
                   /\ pc' = "send"
                   /\ ctx' = ctx
              ELSE /\ reply' = reply
                   /\ pc' = "embed_log_start"
                   /\ ctx' = [resolved |-> TRUE, tier |-> "EMBEDDINGS",
                              routeTag |-> "embeddings", logicalModel |-> model,
                              provider |-> (CHOOSE m \in embeddingAllowed : TRUE).provider,
                              header |-> "none",
                              allowedModels |-> getAllowedModelsSet(project, "embedding")]
  /\ UNCHANGED <<env, raw, log, calls, tr, relay, chunksLeft, wire, fo, client, result, costArgs>>

\* await logRequestStart of the embeddings route
EmbedLogStart ==
  /\ pc = "embed_log_start"
  /\ log' = Append(log, NewLogRow(ctx))
  /\ pc' = "embed_call"
  /\ UNCHANGED <<env, db, req, ctx, reply, raw, calls, tr, relay, chunksLeft, wire, fo, client, result, costArgs>>

\* mockEmbeddings(model)
mockEmbeddings(model) ==
  [kind |-> "json", provider |-> "google", model |-> model, status |-> 200,
   body |-> [object |-> "list", model |-> model],
   usage |-> UsageOf(Some(5), Some(0))]

\* googleAdapter.embeddings: a result of status 200 whose usage is approximated,
\* where an upstream that is not ok makes the adapter throw
EmbeddingsResults(model) ==
  { [kind |-> "json", provider |-> "google", model |-> model, status |-> 200,
     body |-> [object |-> "list", model |-> model],
     usage |-> UsageOf(Some(n), Some(0))] : n \in {0, 7} }

\* the try block around the embeddings call; its catch closes the row as
\* embeddings_failed and answers 500
EmbedCall ==
  /\ pc = "embed_call"
  /\ \E throws \in BOOLEAN :
       IF throws /\ ~env.GATEWAY_MOCK
       THEN /\ calls' = calls + 1
            /\ CloseLog([status |-> "error", httpStatus |-> Some(500),
                         errorClass |-> "embeddings_failed"])
            /\ reply' = Respond(500, ErrorBody("Embeddings request failed",
                                               "internal_error", "none"))
            /\ result' = result
            /\ pc' = "send"
       ELSE /\ IF env.GATEWAY_MOCK
               THEN result' = mockEmbeddings(ctx.logicalModel) /\ calls' = calls
               ELSE /\ result' \in EmbeddingsResults(ctx.logicalModel)
                    /\ calls' = calls + 1
            /\ pc' = "embed_finish"
            /\ UNCHANGED <<log, reply>>
  /\ UNCHANGED <<env, db, req, ctx, raw, tr, relay, chunksLeft, wire, fo, client, costArgs>>

\* after the call: calculateCost, logRequestFinish, then the reply
EmbedFinish ==
  /\ pc = "embed_finish"
  /\ LET tokensIn == Get(result.usage, "prompt_tokens", Null)
         tokensOut == Get(result.usage, "completion_tokens", Null)
         ok == result.status >= 200 /\ result.status < 300
     IN  /\ costArgs' = [called |-> TRUE, provider |-> result.provider,
                         model |-> result.model,
                         tokensIn |-> tokensIn, tokensOut |-> tokensOut]
         /\ CloseLog([status |-> IF ok THEN "success" ELSE "error",
                      httpStatus |-> Some(result.status),
                      errorClass |-> IF ok THEN "null" ELSE "upstream_error",
                      tokensIn |-> tokensIn, tokensOut |-> tokensOut,
                      estimatedCostUsdc |-> calculateCost(db.prices, result.provider,
                                                          result.model, tokensIn, tokensOut),
                      provider |-> result.provider, model |-> result.model])
  /\ reply' = Respond(result.status, result.body)
  /\ pc' = "send"
  /\ UNCHANGED <<env, db, req, ctx, raw, calls, tr, relay, chunksLeft, wire, fo, client, result>>

\* ------------------------------- the chat handler with failover to Google

FailoverChunks == 1

CHAT_MODEL_PROVIDERS ==
  [m \in {"gpt-5-nano", "gpt-5-mini", "gemini-2.0-flash-lite"} |->
     IF m = "gemini-2.0-flash-lite" THEN "google" ELSE "openai"]

DEFAULT_TIER_MODEL == [FAST |-> "gpt-5-nano", SMART |-> "gpt-5-mini"]

FAST_FALLBACK_MODEL == "gemini-2.0-flash-lite"

\* body.model: "" stands for an absent model
FailoverModels == {"", "gpt-5-nano", "gpt-5-mini", "gemini-2.0-flash-lite", "gpt-4o"}

\* header values; "none" stands for an absent header
FailoverTierHeaders == {"none", "SMART"}
FailoverRouteTagHeaders == {"none", "critical"}

\* JSON error bodies of upstream HTTP responses
FailoverUpstreamErrors ==
  UpstreamErrors
  \cup { [status |-> 404, json |-> [error |-> [message |-> "Not found",
                                               type |-> "model_not_found"]]],
         [status |-> 401, json |-> [error |-> [message |-> "Invalid credentials",
                                               type |-> "authentication_error"]]],
         [status |-> 408, json |-> [error |-> [message |-> "Request timed out",
                                               type |-> "timeout_error"]]],
         [status |-> 500, json |-> [error |-> [message |->
               "The model does not exist or you do not have access to it",
               type |-> "server_error"]]] }

\* the upstream HTTP responses to a streaming call
FailoverStreamResponses ==
  {[status |-> 200, ok |-> TRUE, json |-> [none |-> TRUE]]}
  \cup {[status |-> e.status, ok |-> FALSE, json |-> e.json] : e \in FailoverUpstreamErrors}

\* openAIAdapter.chatCompletions of the chat passthrough adapter, and
\* googleAdapter.chatCompletions: the results over the upstream's responses
FailoverAdapterResults(provider, model, stream) ==
  IF stream
  THEN {[kind |-> "stream", provider |-> provider, model |-> model, response |-> r] :
          r \in FailoverStreamResponses}
  ELSE IF provider = "google"
  THEN {GoogleJsonResult(r, model) :
          r \in {q \in GoogleResponses : q.status = 200} \cup FailoverUpstreamErrors}
  ELSE {ChatJsonResult(r, model) :
          r \in {q \in ChatCompletionsResponses : q.status = 200}
                \cup FailoverUpstreamErrors}

\* a failover test that leaves the server errors out
IsRateLimitStatus(status) == status = 429

\* isFailoverStatus(status)
isFailoverStatus(status) == status = 429 \/ status >= 500 \/ status = 408

\* an eligibility test that leaves the tier out
EligibleOnOpenAI(tier, primaryProvider) == primaryProvider = "openai"

\* tier === "FAST" && primaryProvider === "openai" && FAST_FALLBACK_MODEL
fallbackEligible(tier, primaryProvider) == tier = "FAST" /\ primaryProvider = "openai"

\* the body check, the tier and the model, the 400 for an unsupported model;
\* then await logRequestStart
FailoverValidate ==
  /\ pc = "fo_handler"
  /\ \E bodyOk \in BOOLEAN, model \in FailoverModels, stream \in BOOLEAN,
        tierHeaderRaw \in FailoverTierHeaders, routeTagHeaderRaw \in FailoverRouteTagHeaders :
       LET routeTagHeader == ToLowerCase(routeTagHeaderRaw)
           tierHeader == ToLowerCase(tierHeaderRaw)
           tier == IF routeTagHeader = "critical" \/ tierHeader = "smart"
                   THEN "SMART" ELSE "FAST"
           routeTag == IF routeTagHeader # "none" THEN routeTagHeader
                       ELSE IF tier = "SMART" THEN "critical" ELSE "fast"
           logicalModel == IF model # "" THEN model ELSE DEFAULT_TIER_MODEL[tier]
       IN  /\ req' = req @@ [bodyOk |-> bodyOk, model |-> model, stream |-> stream,
                             tierHeader |-> tierHeaderRaw,
                             routeTagHeader |-> routeTagHeaderRaw]
           /\ IF ~bodyOk
              THEN /\ reply' = Respond(400, ErrorBody("messages array is required",
                                                      "invalid_request_error", "none"))
                   /\ pc' = "send"
                   /\ ctx' = ctx
              ELSE IF logicalModel \notin DOMAIN CHAT_MODEL_PROVIDERS
              THEN /\ reply' = Respond(400, ErrorBody("Unsupported model",
                                                      "invalid_request_error", "none"))
                   /\ pc' = "send"
                   /\ ctx' = ctx
              ELSE /\ reply' = reply
                   /\ pc' = "fo_log_start"
                   /\ ctx' = [resolved |-> TRUE, tier |-> tier, routeTag |-> routeTag,
                              logicalModel |-> logicalModel,
                              provider |-> CHAT_MODEL_PROVIDERS[logicalModel],
                              header |-> "none", allowedModels |-> {}]
  /\ UNCHANGED <<env, db, raw, log, calls, tr, relay, chunksLeft, wire, fo, client, result, costArgs>>

\* await logRequestStart
FailoverLogStart ==
  /\ pc = "fo_log_start"
  /\ log' = Append(log, NewLogRow(ctx))
  /\ pc' = "fo_provider_key"
  /\ UNCHANGED <<env, db, req, ctx, reply, raw, calls, tr, relay, chunksLeft, wire, fo, client, result, costArgs>>

\* the provider key check before the upstream call
FailoverCheckProviderKey ==
  /\ pc = "fo_provider_key"
  /\ IF providerKeyMissing(ctx.provider)
     THEN /\ CloseLog([status |-> "error", httpStatus |-> Some(500),
                       errorClass |-> "missing_provider_api_key"])
          /\ reply' = Respond(500, ErrorBody("Provider API key is not configured",
                                             "config_error", "none"))
          /\ pc' = "send"
     ELSE /\ pc' = "fo_primary"
          /\ UNCHANGED <<log, reply>>
  /\ UNCHANGED <<env, db, req, ctx, raw, calls, tr, relay, chunksLeft, wire, fo, client, result, costArgs>>

\* the call an adapter receives: { body, stream, model }
AdapterCall(provider, model) ==
  [provider |-> provider, model |-> model, stream |-> req.stream, body |-> "body"]

\* try { primaryResult = await adapter.chatCompletions(...) } catch { primaryError }
FailoverPrimaryCall ==
  /\ pc = "fo_primary"
  /\ calls' = calls + 1
  /\ \/ \E r \in FailoverAdapterResults(ctx.provider, ctx.logicalModel, req.stream) :
          fo' = [fo EXCEPT !.called = Append(@, AdapterCall(ctx.provider, ctx.logicalModel)),
                           !.primaryResult = r]
     \/ fo' = [fo EXCEPT !.called = Append(@, AdapterCall(ctx.provider, ctx.logicalModel)),
                         !.primaryError = TRUE]
  /\ pc' = "fo_decide"
  /\ UNCHANGED <<env, db, req, ctx, reply, raw, log, tr, relay, chunksLeft, wire, client, result, costArgs>>

\* the primary call did not give a result to pass on
PrimaryFailed ==
  \/ fo.primaryError
  \/ (fo.primaryResult.kind = "json" /\ fo.primaryResult.status >= 400)
  \/ (fo.primaryResult.kind = "stream" /\ ~fo.primaryResult.response.ok)

\* status === 400 && modelNotAllowedError(body) on a JSON result
PrimaryModelNotAllowed ==
  /\ fo.primaryResult.kind = "json"
  /\ fo.primaryResult.status = 400
  /\ modelNotAllowedError(fo.primaryResult.body)

\* the condition under which the handler calls the fallback
ShouldFallback ==
  /\ PrimaryFailed
  /\ ~PrimaryModelNotAllowed
  /\ fallbackEligible(ctx.tier, ctx.provider)
  /\ \/ fo.primaryError
     \/ (fo.primaryResult.kind = "json" /\ isFailoverStatus(fo.primaryResult.status))
     \/ (/\ fo.primaryResult.kind = "stream"
         /\ ~fo.primaryResult.response.ok
         /\ isFailoverStatus(fo.primaryResult.response.status))

\* the status of the primary result, 500 when the call threw
PrimaryStatus ==
  IF fo.primaryResult.kind = "json" THEN fo.primaryResult.status
  ELSE IF fo.primaryResult.kind = "stream" THEN fo.primaryResult.response.status
  ELSE 500

\* bodyPayload?.error?.message ?? bodyPayload?.error ?? primaryError?.message ?? "unknown"
PrimaryErrorSummary ==
  IF fo.primaryResult.kind = "json" /\ Has(fo.primaryResult.body, "error")
  THEN Get(fo.primaryResult.body.error, "message", "error")
  ELSE IF fo.primaryError THEN "fetch failed"
  ELSE "unknown"

\* the patch of the first combinePatch
FirstFallbackPatch ==
  [fallback |-> [from |-> "openai", to |-> "google", primaryStatus |-> PrimaryStatus,
                 primaryError |-> PrimaryErrorSummary]]

\* the patch of combinePatch before the dispatch
SecondFallbackPatch ==
  [fallback |-> [from |-> ctx.provider, reason |-> "primary_failed"]]

\* after the primary call: MODEL_NOT_ALLOWED, the decision to fall back with the
\* first combinePatch, upstream_fetch_failed, or on to the dispatch
FailoverDecide ==
  /\ pc = "fo_decide"
  /\ IF PrimaryFailed /\ PrimaryModelNotAllowed
     THEN /\ CloseLog([status |-> "error", httpStatus |-> Some(fo.primaryResult.status),
                       errorClass |-> "MODEL_NOT_ALLOWED"])
          /\ reply' = Respond(400, ErrorBody(
                        "Requested model is not allowed by upstream provider",
                        "invalid_request_error", "MODEL_NOT_ALLOWED"))
          /\ pc' = "send"
          /\ fo' = fo
     ELSE IF ShouldFallback
     THEN /\ fo' = [fo EXCEPT !.useFallback = TRUE,
                              !.metadataPatch = mergeInputJson(@, FirstFallbackPatch)]
          /\ pc' = "fo_fallback"
          /\ UNCHANGED <<log, reply>>
     ELSE IF PrimaryFailed /\ fo.primaryError
     THEN /\ CloseLog([status |-> "error", httpStatus |-> Some(500),
                       errorClass |-> "upstream_fetch_failed"])
          /\ reply' = Respond(500, ErrorBody("Upstream request failed",
                                             "internal_error", "none"))
          /\ pc' = "send"
          /\ fo' = fo
     ELSE /\ pc' = "fo_dispatch"
          /\ UNCHANGED <<log, reply, fo>>
  /\ UNCHANGED <<env, db, req, ctx, raw, calls, tr, relay, chunksLeft, wire, client, result, costArgs>>

\* a handler that calls the fallback again when it threw
RetryFallback == "fo_fallback"

\* where the handler goes when the fallback threw: it answers 502 and returns
AfterFallbackThrow == "send"

\* try { fallbackResult = await adapters.google.chatCompletions(...) } catch:
\* without a result the row is closed as fallback_failed and 502 is answered
FailoverFallbackCall ==
  /\ pc = "fo_fallback"
  /\ calls' = calls + 1
  /\ \/ /\ env.GOOGLE_API_KEY
        /\ \E r \in FailoverAdapterResults("google", FAST_FALLBACK_MODEL, req.stream) :
             fo' = [fo EXCEPT !.called = Append(@, AdapterCall("google", FAST_FALLBACK_MODEL)),
                              !.fallbackResult = r]
        /\ pc' = "fo_dispatch"
        /\ UNCHANGED <<log, reply>>
     \/ /\ fo' = [fo EXCEPT !.called = Append(@, AdapterCall("google", FAST_FALLBACK_MODEL))]
        /\ CloseLog([status |-> "error", httpStatus |-> Some(PrimaryStatus),
                     errorClass |-> "fallback_failed",
                     fallbackUsed |-> Some(TRUE), retryCount |-> Some(1),
                     metadataPatch |->
                       [fallback |-> [from |-> "openai", error |-> PrimaryErrorSummary]]])
        /\ reply' = Respond(502, ErrorBody("Primary provider failed and fallback unavailable",
                                           "upstream_error", "none"))
        /\ pc' = AfterFallbackThrow
  /\ UNCHANGED <<env, db, req, ctx, raw, tr, relay, chunksLeft, wire, client, result, costArgs>>

\* finalResult, providerUsed, modelUsed, retryCount and the metadata patch the
\* dispatch passes on
UsedFallback == fo.useFallback /\ fo.fallbackResult.kind # "none"
FinalResult == IF UsedFallback THEN fo.fallbackResult ELSE fo.primaryResult
FinalProvider == IF UsedFallback THEN fo.fallbackResult.provider ELSE fo.primaryResult.provider
FinalModel == IF UsedFallback THEN fo.fallbackResult.model ELSE ctx.logicalModel
FinalRetryCount == IF fo.useFallback THEN 1 ELSE 0
FinalPatch ==
  IF fo.useFallback THEN mergeInputJson(fo.metadataPatch, SecondFallbackPatch)
  ELSE fo.metadataPatch

\* the fields every update of the dispatched result carries
FinalFields ==
  [provider |-> FinalProvider, model |-> FinalModel,
   fallbackUsed |-> Some(fo.useFallback), retryCount |-> Some(FinalRetryCount),
   metadataPatch |-> FinalPatch]

\* calculateCost of this handler: the price row of the provider and model
FailoverCost(prices, provider, model, tokensIn, tokensOut) ==
  LET found == FindPrice(prices, provider, model)
      price == CHOOSE r \in found : TRUE
  IN  IF tokensIn = Null /\ tokensOut = Null THEN Null
      ELSE IF found = {} THEN Null
      ELSE Some((IF tokensIn # Null THEN price.inputPerMtok * tokensIn[1] ELSE 0)
                + (IF tokensOut # Null THEN price.outputPerMtok * tokensOut[1] ELSE 0))

\* handleChatJson: calculateCost, logRequestFinish, then the reply
FailoverHandleChatJson ==
  /\ pc = "fo_dispatch"
  /\ FinalResult.kind = "json"
  /\ LET res == FinalResult
         tokensIn == Get(res.usage, "prompt_tokens", Null)
         tokensOut == Get(res.usage, "completion_tokens", Null)
         ok == res.status >= 200 /\ res.status < 300
     IN  /\ result' = res
         /\ costArgs' = [called |-> TRUE, provider |-> FinalProvider, model |-> FinalModel,
                         tokensIn |-> tokensIn, tokensOut |-> tokensOut]
         /\ CloseLog([status |-> IF ok THEN "success" ELSE "error",
                      httpStatus |-> Some(res.status),
                      errorClass |-> IF ok THEN "null"
                                     ELSE IF Has(res.body, "error")
                                          THEN Get(res.body.error, "type", "upstream_error")
                                          ELSE "upstream_error",
                      tokensIn |-> tokensIn, tokensOut |-> tokensOut,
                      estimatedCostUsdc |-> FailoverCost(db.prices, FinalProvider, FinalModel,
                                                         tokensIn, tokensOut)]
                     @@ FinalFields)
         /\ reply' = Respond(res.status, res.body)
  /\ pc' = "send"
  /\ UNCHANGED <<env, db, req, ctx, raw, calls, tr, relay, chunksLeft, wire, fo, client>>

\* streamToClient, !result.response.ok: the row is closed and the upstream's
\* status and body are answered
FailoverStreamNonOk ==
  /\ pc = "fo_dispatch"
  /\ FinalResult.kind = "stream"
  /\ ~FinalResult.response.ok
  /\ LET res == FinalResult
         responseJson == res.response.json
     IN  /\ result' = res
         /\ CloseLog([status |-> "error", httpStatus |-> Some(res.response.status),
                      errorClass |-> IF Has(responseJson, "error")
                                     THEN Get(responseJson.error, "type", "upstream_error")
                                     ELSE "upstream_error"]
                     @@ FinalFields)
         /\ reply' = Respond(res.response.status,
                             IF Has(responseJson, "none")
                             THEN ErrorBody("Upstream error", "none", "none")
                             ELSE responseJson)
  /\ pc' = "send"
  /\ UNCHANGED <<env, db, req, ctx, raw, calls, tr, relay, chunksLeft, wire, fo, client, costArgs>>

\* streamToClient, response ok: writeHead(200), getReader
FailoverStreamBegin ==
  /\ pc = "fo_dispatch"
  /\ FinalResult.kind = "stream"
  /\ FinalResult.response.ok
  /\ result' = FinalResult
  /\ raw' = [raw EXCEPT !.headStatus = Some(200)]
  /\ tr' = [kind |-> IF FinalProvider = "google" THEN "google" ELSE "passthrough",
            model |-> FinalResult.model]
  /\ relay' = NewRelay
  /\ pc' = "fo_reading"
  /\ UNCHANGED <<env, db, req, ctx, reply, log, calls, chunksLeft, wire, fo, client, costArgs>>

\* one pass of the read loop: every transformed.sse is written, usage is kept
FailoverReadChunk ==
  /\ pc = "fo_reading"
  /\ chunksLeft > 0
  /\ \E chunk \in UpstreamChunks(tr.kind) :
       LET transformed == ChunkToSse(tr, chunk)
           u == transformed.usage
       IN  /\ tr' = transformed.st
           /\ raw' = [raw EXCEPT !.writes = @ \o transformed.sse]
           /\ relay' =
                [relay EXCEPT
                   !.tokensIn = IF Has(u, "prompt_tokens") /\ u.prompt_tokens # Null
                                THEN u.prompt_tokens ELSE @,
                   !.tokensOut = IF Has(u, "completion_tokens") /\ u.completion_tokens # Null
                                 THEN u.completion_tokens ELSE @]
           /\ wire' = Append(wire, chunk)
  /\ chunksLeft' = chunksLeft - 1
  /\ UNCHANGED <<pc, env, db, req, ctx, reply, log, calls, result, costArgs, fo, client>>

\* reader.read() gives done: [DONE] is written and the connection ended
FailoverReadEnd ==
  /\ pc = "fo_reading"
  /\ raw' = [raw EXCEPT !.writes = @ \o <<DoneFrame>>, !.ended = @ + 1]
  /\ pc' = "fo_close_success"
  /\ UNCHANGED <<env, db, req, ctx, reply, log, calls, tr, relay, chunksLeft, wire, fo, client, result, costArgs>>

\* reader.read() throws: the catch block closes the row as stream_failed and
\* then ends the connection
FailoverReadThrows ==
  /\ pc = "fo_reading"
  /\ CloseLog([status |-> "error", httpStatus |-> Some(500),
               errorClass |-> "stream_failed"] @@ FinalFields)
  /\ raw' = [raw EXCEPT !.ended = @ + 1]
  /\ pc' = "done"
  /\ UNCHANGED <<env, db, req, ctx, reply, calls, tr, relay, chunksLeft, wire, fo, client, result, costArgs>>

\* after the loop: calculateCost and the success update
FailoverStreamClose ==
  /\ pc = "fo_close_success"
  /\ costArgs' = [called |-> TRUE, provider |-> FinalProvider, model |-> FinalModel,
                  tokensIn |-> relay.tokensIn, tokensOut |-> relay.tokensOut]
  /\ CloseLog([status |-> "success", httpStatus |-> Some(200),
               tokensIn |-> relay.tokensIn, tokensOut |-> relay.tokensOut,
               estimatedCostUsdc |-> FailoverCost(db.prices, FinalProvider, FinalModel,
                                                  relay.tokensIn, relay.tokensOut)]
              @@ FinalFields)
  /\ pc' = "done"
  /\ UNCHANGED <<env, db, req, ctx, reply, raw, calls, tr, relay, chunksLeft, wire, fo, client, result>>

\* ------------------------------------------------- cost lookup and storage

\* providerModelPrice rows a table may hold for the FAST default model, under its
\* canonical id and under its alias, and one row of another provider
CostRows ==
  { [provider |-> "openai", model |-> "gpt-5-nano-2025-08-07", inputPerMtok |-> 5,
     outputPerMtok |-> 40, effectiveFrom |-> 1, isActive |-> TRUE],
    [provider |-> "openai", model |-> "gpt-5-nano-2025-08-07", inputPerMtok |-> 6,
     outputPerMtok |-> 50, effectiveFrom |-> 2, isActive |-> TRUE],
    [provider |-> "openai", model |-> "gpt-5-nano-2025-08-07", inputPerMtok |-> 9,
     outputPerMtok |-> 90, effectiveFrom |-> 5, isActive |-> FALSE],
    [provider |-> "openai", model |-> "gpt-5-nano", inputPerMtok |-> 5,
     outputPerMtok |-> 40, effectiveFrom |-> 1, isActive |-> TRUE],
    [provider |-> "openai", model |-> "gpt-5-nano", inputPerMtok |-> 7,
     outputPerMtok |-> 60, effectiveFrom |-> 3, isActive |-> TRUE],
    [provider |-> "openai", model |-> "gpt-5-nano", inputPerMtok |-> 8,
     outputPerMtok |-> 80, effectiveFrom |-> 4, isActive |-> FALSE],
    [provider |-> "google", model |-> "gemini-2.0-flash-lite", inputPerMtok |-> 7,
     outputPerMtok |-> 30, effectiveFrom |-> 1, isActive |-> TRUE] }

\* the (provider, model) pairs a closed request is billed under
CostModels ==
  { [provider |-> "openai", model |-> "gpt-5-nano-2025-08-07"],
    [provider |-> "openai", model |-> "gpt-4o-2024-08-06"],
    [provider |-> "google", model |-> "gemini-2.0-flash-lite"] }

\* token counts of a result: null, zero or a number
TokenCounts == {Null, Some(0), Some(5)}

\* calculateCost for a result's provider, model and token counts
CostLookup ==
  /\ pc = "cost_idle"
  /\ \E pm \in CostModels, tokensIn \in TokenCounts, tokensOut \in TokenCounts :
       costArgs' = [called |-> TRUE, provider |-> pm.provider, model |-> pm.model,
                    tokensIn |-> tokensIn, tokensOut |-> tokensOut,
                    estimatedCostUsdc |-> calculateCost(db.prices, pm.provider, pm.model,
                                                        tokensIn, tokensOut)]
  /\ pc' = "cost_store"
  /\ UNCHANGED <<env, db, req, ctx, reply, raw, log, calls, tr, relay, chunksLeft, wire, fo, client, result>>

\* logRequestFinish with the token counts and the cost
CostStore ==
  /\ pc = "cost_store"
  /\ CloseLog([status |-> "success", httpStatus |-> Some(200),
               tokensIn |-> costArgs.tokensIn, tokensOut |-> costArgs.tokensOut,
               estimatedCostUsdc |-> costArgs.estimatedCostUsdc,
               provider |-> costArgs.provider, model |-> costArgs.model])
  /\ pc' = "done"
  /\ UNCHANGED <<env, db, req, ctx, reply, raw, calls, tr, relay, chunksLeft, wire, fo, client, result, costArgs>>

\* -------------------------------------------------------- specifications

Envs == [OPENAI_API_KEY : BOOLEAN, GOOGLE_API_KEY : BOOLEAN, GATEWAY_MOCK : BOOLEAN]

\* A started gateway with one key issued, before a request arrives.
Init ==
  /\ pc = "idle"
  /\ env \in Envs
  /\ db \in [keyStatus : {"ACTIVE"}, lastUsedStamped : {FALSE},
             project : {[exists |-> FALSE]}, prices : {SeedPrices}]
  /\ req = NoReq
  /\ ctx = NoCtx
  /\ reply = NewReply
  /\ raw = NewRaw
  /\ log = <<>>
  /\ calls = 0
  /\ tr = NoTranslator
  /\ relay = NewRelay
  /\ chunksLeft = PipelineChunks
  /\ wire = <<>>
  /\ fo = NoFailover
  /\ client = "connected"
  /\ result = NoResult
  /\ costArgs = NoCost

StreamNext ==
  \/ ReadChunk
  \/ ReadEnd
  \/ ReadThrows
  \/ StreamCloseSuccess
  \/ StreamCloseFailed

Next ==
  \/ DisableKey
  \/ ApiKeyLookup
  \/ ApiKeyStamp
  \/ SendReply
  \/ ChatValidate
  \/ ChatResolve
  \/ LogRequestStart
  \/ CheckProviderKey
  \/ MockStreamWrite
  \/ MockStreamClose
  \/ CallAdapter
  \/ UpstreamModelNotAllowed
  \/ HandleChatJson
  \/ StreamNonOk
  \/ StreamBegin
  \/ StreamNext
  \/ EmbedResolve
  \/ EmbedLogStart
  \/ EmbedCall
  \/ EmbedFinish
  \/ ClientDisconnect

Spec == Init /\ [][Next]_vars

\* The stream models relayed: one per translator.
StreamModels == {"gpt-5-nano-2025-08-07", "gpt-4o-2024-08-06", "gemini-2.0-flash-lite"}

StreamProject ==
  [exists |-> TRUE, defaultTier |-> "fast", allowAllModels |-> TRUE, allowedModels |-> <<>>]

\* The states right after StreamBegin for a streaming request naming a model of
\* StreamModels: the row is open, the head and the initial chunk are written.
StreamInit ==
  \E m \in StreamModels :
    LET r == Resolve(StreamProject, m, "none", "none")
        res == [kind |-> "stream", provider |-> r.provider, model |-> m,
                response |-> [status |-> 200, ok |-> TRUE, json |-> [none |-> TRUE]]]
    IN  /\ pc = "reading"
        /\ env = [OPENAI_API_KEY |-> TRUE, GOOGLE_API_KEY |-> TRUE, GATEWAY_MOCK |-> FALSE]
        /\ db = [keyStatus |-> "ACTIVE", lastUsedStamped |-> TRUE,
                 project |-> StreamProject, prices |-> SeedPrices]
        /\ req = [arrived |-> TRUE, cred |-> "key", apiKey |-> "ACTIVE",
                  authContext |-> TRUE, bodyOk |-> TRUE, model |-> m,
                  tierHeader |-> "none", routeTagHeader |-> "none", stream |-> TRUE]
        /\ ctx = r
        /\ reply = [NewReply EXCEPT !.resolvedHeader = r.header]
        /\ raw = [headStatus |-> Some(200), resolvedHeader |-> r.header,
                  writes |-> <<InitialChunk(m)>>, ended |-> 0]
        /\ log = <<NewLogRow(r)>>
        /\ calls = 1
        /\ tr = NewTranslator(r.provider, m)
        /\ relay = NewRelay
        /\ chunksLeft = MaxChunks
        /\ wire = <<>>
        /\ fo = NoFailover
        /\ client = "connected"
        /\ result = res
        /\ costArgs = NoCost

StreamSpec == StreamInit /\ [][StreamNext]_vars

\* The chat handler with failover, entered after the pre-handler accepted the key.
FailoverInit ==
  /\ pc = "fo_handler"
  /\ env \in [OPENAI_API_KEY : BOOLEAN, GOOGLE_API_KEY : BOOLEAN, GATEWAY_MOCK : {FALSE}]
  /\ db = [keyStatus |-> "ACTIVE", lastUsedStamped |-> TRUE,
           project |-> [exists |-> FALSE], prices |-> SeedPrices]
  /\ req = [arrived |-> TRUE, cred |-> "key", apiKey |-> "ACTIVE", authContext |-> TRUE]
  /\ ctx = NoCtx
  /\ reply = NewReply
  /\ raw = NewRaw
  /\ log = <<>>
  /\ calls = 0
  /\ tr = NoTranslator
  /\ relay = NewRelay
  /\ chunksLeft = FailoverChunks
  /\ wire = <<>>
  /\ fo = NoFailover
  /\ client = "connected"
  /\ result = NoResult
  /\ costArgs = NoCost

FailoverNext ==
  \/ FailoverValidate
  \/ FailoverLogStart
  \/ FailoverCheckProviderKey
  \/ FailoverPrimaryCall
  \/ FailoverDecide
  \/ FailoverFallbackCall
  \/ FailoverHandleChatJson
  \/ FailoverStreamNonOk
  \/ FailoverStreamBegin
  \/ FailoverReadChunk
  \/ FailoverReadEnd
  \/ FailoverReadThrows
  \/ FailoverStreamClose
  \/ ClientDisconnect
  \/ SendReply

FailoverSpec == FailoverInit /\ [][FailoverNext]_vars

\* A request whose row is open and whose result is about to be billed, over the
\* price tables the database may hold.
CostInit ==
  /\ pc = "cost_idle"
  /\ env = [OPENAI_API_KEY |-> TRUE, GOOGLE_API_KEY |-> TRUE, GATEWAY_MOCK |-> FALSE]
  /\ db \in [keyStatus : {"ACTIVE"}, lastUsedStamped : {TRUE},
             project : {[exists |-> FALSE]}, prices : SUBSET CostRows]
  /\ req = [arrived |-> TRUE, cred |-> "key", apiKey |-> "ACTIVE", authContext |-> TRUE]
  /\ ctx = [resolved |-> TRUE, tier |-> "FAST", routeTag |-> "fast",
            logicalModel |-> "gpt-5-nano-2025-08-07", provider |-> "openai",
            header |-> "gpt-5-nano-2025-08-07", allowedModels |-> {}]
  /\ reply = NewReply
  /\ raw = NewRaw
  /\ log = <<NewLogRow(ctx)>>
  /\ calls = 0
  /\ tr = NoTranslator
  /\ relay = NewRelay
  /\ chunksLeft = 0
  /\ wire = <<>>
  /\ fo = NoFailover
  /\ client = "connected"
  /\ result = NoResult
  /\ costArgs = NoCost

CostNext ==
  \/ CostLookup
  \/ CostStore

CostSpec == CostInit /\ [][CostNext]_vars

\* Both versions of the gateway: a behaviour is one of Spec or of FailoverSpec.
GatewayInit == Init \/ FailoverInit

GatewayNext == Next \/ FailoverNext

GatewaySpec == GatewayInit /\ [][GatewayNext]_vars


\* ------------------------------------------------------- the client's view

\* the bytes the client has received, and their frames (blank-line separated)
ClientBytes == Flatten(raw.writes)
ClientFrames == SelectNonEmpty(MapTrim(SplitBlank(ClientBytes)))

IsDoneFrame(f) == f = <<DATA, DO, NE>>
IsJsonFrame(f) == StartsWith(f, DATA) /\ IsJson(Tail(f))
FramePayload(f) == JsonParse(Tail(f))

DoneFrames == {i \in 1..Len(ClientFrames) : IsDoneFrame(ClientFrames[i])}
DoneCount == Cardinality(DoneFrames)

\* the read loop ended without throwing and the connection was ended
EndedNormally == pc = "close_success"

\* C1: a stream whose read loop ends normally carries exactly one data: [DONE] frame
C1_ExactlyOneDone == EndedNormally => DoneCount = 1

\* C2: in every stream the [DONE] frame is the last frame the client receives,
\* whatever the upstream delivers after its completion event
C2_DoneIsLastFrame == \A i \in DoneFrames : i = Len(ClientFrames)

IsErrorFrame(f) == IsJsonFrame(f) /\ Get(FramePayload(f), "object", "none") = "error"
ReadFailed == pc = "close_failed"

\* C3: when the upstream read throws, the client receives one error frame, then
\* [DONE], then the end of the connection, and the connection carries exactly
\* one [DONE] frame counting the frames relayed before the failure
C3_FailureEndsWithOneDone ==
  ReadFailed =>
    LET n == Len(ClientFrames)
    IN  /\ n >= 2
        /\ IsErrorFrame(ClientFrames[n - 1])
        /\ IsDoneFrame(ClientFrames[n])
        /\ raw.ended = 1
        /\ DoneCount = 1

\* an atom of the canonical client protocol: data: framing, [DONE], and JSON
\* payloads that are chat.completion.chunk or error objects
IsCanonicalAtom(a) ==
  \/ a \in {NL, DATA, DO, NE, JT}
  \/ a.k = "{" /\ Get(a.j, "object", "none") \in {"chat.completion.chunk", "error"}

\* C4: nothing written to the client holds an event: line or an untranslated
\* upstream payload
C4_NoProviderFraming ==
  \A i \in 1..Len(raw.writes) :
    \A n \in 1..Len(raw.writes[i]) : IsCanonicalAtom(raw.writes[i][n])

\* the delta strings of the response.output_text.delta events among the events
\* (blank-line terminated) of the bytes the upstream has delivered
RECURSIVE DeltasOf(_)
DeltasOf(events) ==
  IF events = <<>> THEN <<>>
  ELSE LET payloadStr == Flatten(DataLines(TrimmedLines(Head(events))))
       IN  (IF /\ IsJson(payloadStr)
               /\ Get(JsonParse(payloadStr), "type", "none") = "response.output_text.delta"
            THEN JsonParse(payloadStr).delta ELSE <<>>)
           \o DeltasOf(Tail(events))

ReceivedDeltaText ==
  LET pieces == SplitBlank(Flatten(wire))
  IN  DeltasOf(SubSeq(pieces, 1, Len(pieces) - 1))

RECURSIVE ContentOf(_)
ContentOf(frames) ==
  IF frames = <<>> THEN <<>>
  ELSE (IF IsJsonFrame(Head(frames)) THEN Get(FramePayload(Head(frames)), "content", <<>>)
        ELSE <<>>)
       \o ContentOf(Tail(frames))

\* C5: for a Responses stream the concatenated content of the emitted frames is
\* the concatenation of the deltas received, whitespace-only deltas included
C5_ContentEqualsDeltas ==
  tr.kind = "responses" => ContentOf(ClientFrames) = ReceivedDeltaText

IsTruncatedFrame(f) ==
  IsErrorFrame(f) /\ Get(FramePayload(f), "code", "none") = "OUTPUT_TRUNCATED"
IsFinishFrame(f) ==
  /\ IsJsonFrame(f)
  /\ Get(FramePayload(f), "object", "none") = "chat.completion.chunk"
  /\ Get(FramePayload(f), "finish_reason", "null") # "null"
FinishedWithoutText == tr.kind = "responses" /\ tr.doneSent /\ ~tr.sawText

\* C6: a Responses stream that finished with no text delta observed gives the
\* client exactly one OUTPUT_TRUNCATED error frame, no finish-reason chunk, and
\* after the error frame exactly one [DONE]
C6_TruncatedThenOneDone ==
  FinishedWithoutText =>
    /\ Cardinality({i \in 1..Len(ClientFrames) : IsTruncatedFrame(ClientFrames[i])}) = 1
    /\ \A i \in 1..Len(ClientFrames) : ~IsFinishFrame(ClientFrames[i])
    /\ DoneCount = 1
    /\ \A i \in DoneFrames : i > 1 /\ IsTruncatedFrame(ClientFrames[i - 1])


\* ------------------------------------------------------- resolution claims

\* the handler resolved a model for the request and set the header
Served == ctx.resolved /\ ctx.routeTag # "embeddings"
\* the request fields the handler has read
ModelRead == Has(req, "model")
\* the tier the headers and the project row call for
ClaimedTier ==
  IF ToLowerCase(req.tierHeader) = "smart" \/ ToLowerCase(req.routeTagHeader) = "critical"
  THEN "SMART" ELSE normalizeTier(db.project.defaultTier)
ClaimedDefaultModel ==
  IF ClaimedTier = "SMART" THEN "gpt-5-mini-2025-08-07" ELSE "gpt-5-nano-2025-08-07"
AllowedChatIds == getAllowedModelsSet(db.project, "chat") \cap ModelIdsOfType("chat")

\* C7: for a served request the resolved-model header is a canonical chat id, and
\* it is the model of the audit row, the model of the cost lookup, the header of
\* the stream head and the model field of a 200 JSON body
C7_HeaderIsBilledModel ==
  Served =>
    /\ reply.resolvedHeader \in ModelIdsOfType("chat")
    /\ log # <<>> => log[Len(log)].model = reply.resolvedHeader
    /\ costArgs.called => costArgs.model = reply.resolvedHeader
    /\ raw.headStatus # Null => raw.resolvedHeader = reply.resolvedHeader
    /\ reply.status = Some(200) => Get(reply.body, "model", "none") = reply.resolvedHeader

C7_Witness ==
  /\ Served
  /\ req.model = "gpt-5-nano"
  /\ reply.status = Some(200)
  /\ reply.sent = 1
  /\ costArgs.called
  /\ log[1].status = "success"
  /\ reply.resolvedHeader = "gpt-5-nano-2025-08-07"

\* C8: with no model in the body the tier is SMART when the tier header is smart
\* or the route tag is critical and the project default otherwise; the model is
\* that tier's default id, and the header carries it
C8_TierDefaultResolution ==
  (Served /\ req.model = "") =>
    /\ ctx.tier = ClaimedTier
    /\ ctx.logicalModel = ClaimedDefaultModel
    /\ reply.resolvedHeader = ClaimedDefaultModel
    /\ log # <<>> => log[Len(log)].tier = ClaimedTier /\ log[Len(log)].model = ClaimedDefaultModel

C8_Witness ==
  /\ Served
  /\ req.model = ""
  /\ req.tierHeader = "smart"
  /\ normalizeTier(db.project.defaultTier) = "FAST"
  /\ reply.resolvedHeader = "gpt-5-mini-2025-08-07"
  /\ reply.status = Some(200)
  /\ reply.sent = 1

\* C9: with no model in the body and the tier default outside the project's
\* allowed chat models, the request is answered 400 MODEL_NOT_ALLOWED and no
\* model is resolved in its place
C9_UnlistedDefaultRejected ==
  (ModelRead /\ req.model = "" /\ db.project.exists /\ ClaimedDefaultModel \notin AllowedChatIds) =>
    /\ reply.status = Some(400)
    /\ reply.body = ModelNotAllowedBody
    /\ ~Served
    /\ reply.resolvedHeader = "none"
    /\ calls = 0

C9_Witness ==
  /\ ModelRead
  /\ req.model = ""
  /\ db.project.exists
  /\ ClaimedDefaultModel \notin AllowedChatIds
  /\ ClaimedDefaultModel = "gpt-5-nano-2025-08-07"
  /\ reply.status = Some(400)
  /\ reply.sent = 1

\* C10: a named model that after alias normalisation is not an allowed chat
\* entry is answered 400, and no reply sent before the audit row opens (401,
\* 400, 404) leaves a row or makes an upstream call
C10_RejectedBeforeRow ==
  /\ (/\ ModelRead
      /\ req.model # ""
      /\ db.project.exists
      /\ normalizeModelId(req.model).canonical \notin AllowedChatIds)
       => (reply.status = Some(400) /\ ~Served)
  /\ ~ctx.resolved => (log = <<>> /\ calls = 0 /\ raw.writes = <<>>)

C10_Witness ==
  /\ ModelRead
  /\ req.model = "gpt-5-mini"
  /\ db.project.exists
  /\ "gpt-5-mini-2025-08-07" \notin AllowedChatIds
  /\ reply.status = Some(400)
  /\ reply.body = ModelNotAllowedBody
  /\ reply.sent = 1
  /\ log = <<>>
  /\ calls = 0

\* ---------------------------------------------------- authentication claims

\* the pre-handler looked the credential up and found no ACTIVE key
KeyRejected == req.arrived /\ req.apiKey # "ACTIVE"

\* C11: a request presenting a DISABLED key is answered 401 with the same
\* status, message, type and code as one presenting an unknown key or no
\* credential; nothing else of the reply is set and no row is opened
C11_UniformInvalidKeyReply ==
  KeyRejected =>
    /\ [reply EXCEPT !.sent = 0] =
         [NewReply EXCEPT !.status = Some(401),
                          !.body = [error |-> [message |-> "Incorrect API key provided",
                                               type |-> "invalid_request_error",
                                               code |-> "invalid_api_key"]]]
    /\ pc \in {"send", "done"}
    /\ log = <<>>
    /\ calls = 0

C11_Witness ==
  /\ req.arrived
  /\ req.cred = "key"
  /\ req.apiKey = "DISABLED"
  /\ reply.status = Some(401)
  /\ reply.sent = 1

\* C12: when the lastUsedAt write fails for a request with an ACTIVE key, the
\* request still reaches the handler
C12_StampFailureProceeds ==
  (req.arrived /\ req.authContext /\ pc # "stamp" /\ ~db.lastUsedStamped) =>
    (pc = "handler" \/ Has(req, "bodyOk") \/ Has(req, "embeddingModel"))

\* ------------------------------------------------------- audit row claims

\* the handler has returned and the connection, if streamed, is ended
HandlerReturned == pc = "done"

\* C13: a request opens at most one row, in_progress; a row takes at most one
\* update, which sets success or error; and when the handler has returned on
\* any path after opening the row, the row has taken exactly one update
C13_OneRowOneTerminalUpdate ==
  /\ Len(log) <= 1
  /\ \A i \in 1..Len(log) :
       /\ log[i].updates <= 1
       /\ log[i].updates = 0 <=> log[i].status = "in_progress"
       /\ log[i].updates = 1 => log[i].status \in {"success", "error"}
  /\ (HandlerReturned /\ ctx.resolved) => (Len(log) = 1 /\ log[1].updates = 1)

C13_Witness ==
  /\ HandlerReturned
  /\ Len(log) = 1
  /\ log[1].updates = 1
  /\ log[1].status = "error"
  /\ log[1].errorClass = "fallback_failed"

\* the HTTP response is complete: the JSON body was sent or the stream ended
ResponseComplete == reply.sent > 0 \/ raw.ended > 0

\* C14: when the HTTP response is complete (the JSON body sent, or the streamed
\* connection ended) the request's row has already taken its terminal update
C14_ClosedBeforeResponseEnds ==
  (ResponseComplete /\ log # <<>>) => log[Len(log)].status # "in_progress"

\* C15: when the client disconnected while the stream was relayed, the row is
\* closed as error with errorClass stream_failed
C15_DisconnectClosesStreamFailed ==
  (client = "gone" /\ HandlerReturned) =>
    (log[Len(log)].status = "error" /\ log[Len(log)].errorClass = "stream_failed")

\* --------------------------------------------------------- failover claims

\* the request's tier as its headers give it
HeaderTier ==
  IF ToLowerCase(req.routeTagHeader) = "critical" \/ ToLowerCase(req.tierHeader) = "smart"
  THEN "SMART" ELSE "FAST"

\* the handler has acted on the outcome of the primary call
PrimaryJudged ==
  /\ Len(fo.called) >= 1
  /\ pc \notin {"fo_primary", "fo_decide"}

\* the handler has prepared its reply
Answered == pc \in {"send", "done"} /\ reply.status # Null

\* a second adapter call was made for the request
FallbackInvoked == Len(fo.called) >= 2

\* the handler is past the fallback call
FallbackJudged == FallbackInvoked /\ pc # "fo_fallback"

\* C16: a second adapter call is made only for a request of tier FAST whose
\* primary provider, the one called first, is OpenAI
C16_FallbackOnlyFastOpenAI ==
  /\ Len(fo.called) <= 2
  /\ FallbackInvoked =>
       /\ HeaderTier = "FAST"
       /\ log[1].tier = "FAST"
       /\ fo.called[1].provider = "openai"
       /\ CHAT_MODEL_PROVIDERS[fo.called[1].model] = "openai"

C16_Witness ==
  /\ FallbackInvoked
  /\ req.model = "gpt-5-mini"
  /\ HeaderTier = "FAST"
  /\ fo.called[2].provider = "google"
  /\ pc = "done"

\* the primary call threw or answered 429, 408 or a status of 500 and above
PrimaryFailoverFailure ==
  \/ fo.primaryError
  \/ /\ fo.primaryResult.kind = "json"
     /\ (fo.primaryResult.status \in {429, 408} \/ fo.primaryResult.status >= 500)
  \/ /\ fo.primaryResult.kind = "stream"
     /\ ~fo.primaryResult.response.ok
     /\ (fo.primaryResult.response.status \in {429, 408}
         \/ fo.primaryResult.response.status >= 500)

\* the fallback call returned a successful result
FallbackSucceeded ==
  \/ fo.fallbackResult.kind = "json" /\ fo.fallbackResult.status = 200
  \/ fo.fallbackResult.kind = "stream" /\ fo.fallbackResult.response.ok

PrimaryModelShaped4xx ==
  \/ /\ fo.primaryResult.kind = "json"
     /\ fo.primaryResult.status >= 400
     /\ fo.primaryResult.status < 500
     /\ modelNotAllowedError(fo.primaryResult.body)
  \/ /\ fo.primaryResult.kind = "stream"
     /\ fo.primaryResult.response.status >= 400
     /\ fo.primaryResult.response.status < 500
     /\ modelNotAllowedError(fo.primaryResult.response.json)

\* C18: when the primary answers a 4xx with a model-shaped error, streaming or
\* not, no fallback call is made and the caller is answered 400 with code
\* MODEL_NOT_ALLOWED
C18_ModelErrorNoFallback ==
  (PrimaryJudged /\ PrimaryModelShaped4xx) =>
    /\ ~FallbackInvoked
    /\ Answered =>
         /\ reply.status = Some(400)
         /\ Has(reply.body, "error")
         /\ Get(reply.body.error, "code", "none") = "MODEL_NOT_ALLOWED"

\* the fallback call threw or returned an error status
FallbackFailed ==
  \/ fo.fallbackResult.kind = "none"
  \/ fo.fallbackResult.kind = "json" /\ fo.fallbackResult.status >= 400
  \/ fo.fallbackResult.kind = "stream" /\ ~fo.fallbackResult.response.ok

\* C19: when the fallback call also fails, by a throw or an error status, the
\* client is answered 502 with the fallback-unavailable error and the row is
\* closed with errorClass fallback_failed
C19_FallbackFailureIs502 ==
  (FallbackJudged /\ FallbackFailed /\ Answered) =>
    /\ reply.status = Some(502)
    /\ Has(reply.body, "error")
    /\ Get(reply.body.error, "message", "none")
         = "Primary provider failed and fallback unavailable"
    /\ log[1].errorClass = "fallback_failed"

\* the request was dispatched with the fallback's result and its row is closed
ServedByFallback == FallbackJudged /\ UsedFallback /\ log[1].status # "in_progress"

\* C20: the row of a request served by the fallback shows fallbackUsed = true,
\* retryCount = 1, the fallback's provider and model, and a metadata object that
\* keeps the keys written at opening and describes the primary failure by its
\* status and error summary
C20_FallbackRowKeepsFailure ==
  ServedByFallback =>
    /\ log[1].fallbackUsed = Some(TRUE)
    /\ log[1].retryCount = Some(1)
    /\ log[1].provider = "google"
    /\ log[1].model = "gemini-2.0-flash-lite"
    /\ \A k \in {"ip", "userAgent", "routeTag", "tier"} :
         Has(log[1].metadata, k) /\ log[1].metadata[k] = BaseMetadata(ctx)[k]
    /\ Has(log[1].metadata, "fallback")
    /\ Has(log[1].metadata.fallback, "primaryStatus")
    /\ Has(log[1].metadata.fallback, "primaryError")

\* the calls made to a provider with a model
CallsTo(provider, model) ==
  {i \in 1..Len(fo.called) : fo.called[i].provider = provider /\ fo.called[i].model = model}

\* C21: a request makes at most one call to its primary provider and at most
\* one call to the fallback: the first call is the primary's, a second call is
\* the fallback's, and there is no third
C21_OnePrimaryOneFallbackCall ==
  /\ calls = Len(fo.called)
  /\ calls <= 2
  /\ calls >= 1 =>
       /\ fo.called[1].provider = ctx.provider
       /\ fo.called[1].model = ctx.logicalModel
       /\ Cardinality(CallsTo(ctx.provider, ctx.logicalModel)) = 1
  /\ Cardinality(CallsTo("google", "gemini-2.0-flash-lite") \ {1}) <= 1

C21_Witness ==
  /\ pc = "done"
  /\ fo.primaryError
  /\ Len(fo.called) = 2
  /\ fo.fallbackResult.kind = "none"
  /\ reply.status = Some(502)

\* ------------------------------------------------------------ cost claims

\* the closed row of the billed request
Billed == pc = "done" /\ costArgs.called /\ Has(costArgs, "estimatedCostUsdc")

\* the active rows of the table for the billed provider under the billed model
\* or one of its aliases
RowsFor(prices, provider, model) ==
  {r \in prices : /\ r.provider = provider
                  /\ r.isActive
                  /\ (r.model = model
                      \/ (r.model \in DOMAIN modelAliases /\ modelAliases[r.model] = model))}

\* C22: the closed row stores an unknown token count as null and a known one as
\* it is; the cost is null when a token count is unknown or no price row is
\* found, and a number (0 included) otherwise
C22_UnknownNeverZero ==
  Billed =>
    /\ log[1].tokensIn = costArgs.tokensIn
    /\ log[1].tokensOut = costArgs.tokensOut
    /\ (\/ costArgs.tokensIn = Null
        \/ costArgs.tokensOut = Null
        \/ RowsFor(db.prices, costArgs.provider, costArgs.model) = {})
         => log[1].estimatedCostUsdc = Null
    /\ (/\ costArgs.tokensIn # Null
        /\ costArgs.tokensOut # Null
        /\ RowsFor(db.prices, costArgs.provider, costArgs.model) # {})
         => log[1].estimatedCostUsdc # Null

\* the table with every row stored under an alias moved to the canonical id
UnderCanonical(prices) ==
  {IF r.model \in DOMAIN modelAliases THEN [r EXCEPT !.model = modelAliases[r.model]] ELSE r :
     r \in prices}

\* the table holds rows for the billed model under an alias only
AliasOnly ==
  /\ RowsFor(db.prices, costArgs.provider, costArgs.model) # {}
  /\ \A r \in RowsFor(db.prices, costArgs.provider, costArgs.model) : r.model # costArgs.model

\* C23: when the only active rows of the billed model are stored under its
\* alias, the cost is the cost the same rows give when stored under the
\* canonical id
C23_AliasRowsPriceAlike ==
  (Billed /\ AliasOnly) =>
    /\ costArgs.estimatedCostUsdc =
         calculateCost(UnderCanonical(db.prices), costArgs.provider, costArgs.model,
                       costArgs.tokensIn, costArgs.tokensOut)
    /\ log[1].estimatedCostUsdc = costArgs.estimatedCostUsdc

C23_Witness ==
  /\ Billed
  /\ AliasOnly
  /\ costArgs.tokensIn = Some(5)
  /\ costArgs.tokensOut = Some(5)
  /\ log[1].estimatedCostUsdc = Some(7 * 5 + 60 * 5)

\* the latest active row for the billed provider under the billed model or one
\* of its aliases
LatestRow ==
  CHOOSE r \in RowsFor(db.prices, costArgs.provider, costArgs.model) :
    \A q \in RowsFor(db.prices, costArgs.provider, costArgs.model) :
      q.effectiveFrom <= r.effectiveFrom

\* C24: with both token counts known, the cost is computed from the active row
\* of the latest effectiveFrom among the rows under the model's id or alias
C24_LatestActiveRowPrices ==
  (/\ Billed
   /\ costArgs.tokensIn # Null
   /\ costArgs.tokensOut # Null
   /\ RowsFor(db.prices, costArgs.provider, costArgs.model) # {}) =>
    costArgs.estimatedCostUsdc =
      Some(LatestRow.inputPerMtok * costArgs.tokensIn[1]
           + LatestRow.outputPerMtok * costArgs.tokensOut[1])

\* ------------------------------------------------------- catalog claims

CatalogIds == {m.id : m \in modelCatalog}

\* C25: every alias maps to a catalog id that is not itself an alias; for the
\* model a request names, normalising a catalog id returns it, normalising an
\* alias returns its catalog id, normalising the result again returns the same
\* id, and that id is the model the handler resolves
C25_NormalizeIdempotent ==
  /\ \A a \in DOMAIN modelAliases :
       modelAliases[a] \in CatalogIds /\ modelAliases[a] \notin DOMAIN modelAliases
  /\ (ModelRead /\ req.model # "") =>
       LET n == normalizeModelId(req.model).canonical
       IN  /\ normalizeModelId(n).canonical = n
           /\ req.model \in CatalogIds => n = req.model
           /\ req.model \in DOMAIN modelAliases => (n = modelAliases[req.model] /\ n \in CatalogIds)
           /\ Served => ctx.logicalModel = n

C25_Witness ==
  /\ Served
  /\ req.model = "gpt-5-mini"
  /\ ctx.logicalModel = "gpt-5-mini-2025-08-07"
  /\ normalizeModelId(ctx.logicalModel).canonical = "gpt-5-mini-2025-08-07"
  /\ reply.sent = 1

\* ------------------------------------------- responses protocol, JSON call

\* the handler holds the result of a non-streaming call to the responses API
ResponsesJsonCalled ==
  /\ calls = 1
  /\ result.kind = "json"
  /\ result.provider = "openai"
  /\ IsGpt5(result.model)

\* assistant text was extracted from the upstream's JSON
TextExtracted(resp) == ~IsBlank(extractResponseText(resp.json))

\* the upstream reports that a token limit cut the output
LengthLimited(resp) ==
  \/ Get(resp.json, "reason", "null") = "max_output_tokens"
  \/ Get(resp.json, "status", "null") = "incomplete"

PastProviderKey ==
  /\ Len(log) = 1
  /\ ctx.routeTag # "embeddings"
  /\ pc \notin {"provider_key", "fo_provider_key"}

\* the credential of the provider resolved for the request is not configured
CredentialMissing ==
  \/ (ctx.provider = "openai" /\ ~env.OPENAI_API_KEY)
  \/ (ctx.provider = "google" /\ ~env.GOOGLE_API_KEY)

\* C27: with the resolved provider's credential missing, a chat request is
\* answered 500 with the config error, its row is closed as error, and no
\* adapter is called, neither the primary's nor a fallback's
C27_MissingCredentialNoUpstream ==
  (PastProviderKey /\ CredentialMissing) =>
    /\ calls = 0
    /\ fo.called = <<>>
    /\ reply.status = Some(500)
    /\ reply.body = ErrorBody("Provider API key is not configured", "config_error", "none")
    /\ log[1].status = "error"
    /\ log[1].httpStatus = Some(500)
    /\ log[1].errorClass = "missing_provider_api_key"
    /\ log[1].updates = 1

C27_Witness ==
  /\ PastProviderKey
  /\ CredentialMissing
  /\ ctx.provider = "google"
  /\ env.OPENAI_API_KEY
  /\ reply.sent = 1
  /\ pc = "done"

\* ------------------------------------------------------- allowed-model sets

\* the catalog ids of a type
CatalogOfType(type) == {m.id : m \in {e \in modelCatalog : e.type = type}}

\* the catalog ids of a type that an entry of the explicit list names, directly
\* or through an alias
ListedOfType(project, type) ==
  {id \in CatalogOfType(type) :
     \E i \in 1..Len(project.allowedModels) :
       \/ project.allowedModels[i] = id
       \/ /\ project.allowedModels[i] \in DOMAIN modelAliases
          /\ modelAliases[project.allowedModels[i]] = id}

ExpectedAllowed(project, type) ==
  IF project.allowAllModels THEN CatalogOfType(type) ELSE ListedOfType(project, type)

\* C28: for every project row the handler may read and each type, the allowed
\* set is the whole catalog of the type under the allow-all flag, whatever the
\* list holds, and otherwise the listed entries that normalise to catalog ids
\* of the type; the set a resolved request was judged against is that set
C28_AllowedSetFromFlagOrList ==
  /\ pc = "resolve" =>
       \A project \in {p \in ProjectRows : p.exists}, type \in {"chat", "embedding"} :
         getAllowedModelsSet(project, type) = ExpectedAllowed(project, type)
  /\ (ctx.resolved /\ db.project.exists) =>
       ctx.allowedModels =
         ExpectedAllowed(db.project,
                         IF ctx.routeTag = "embeddings" THEN "embedding" ELSE "chat")

\* a request resolved under allow-all to a model the project's list leaves out
C28_Witness ==
  /\ ctx.resolved
  /\ db.project.exists
  /\ db.project.allowAllModels
  /\ db.project.allowedModels = <<"gpt-5-mini-2025-08-07", "not-a-model">>
  /\ ctx.logicalModel = "gemini-2.0-flash-lite"
  /\ ctx.allowedModels = CatalogOfType("chat")
  /\ pc = "done"

\* ------------------------------------------- responses translator, emissions

\* the frames chunkToSse returns over a sequence of calls, in order
RECURSIVE EmittedFrom(_, _)
EmittedFrom(st, chunks) ==
  IF chunks = <<>> THEN <<>>
  ELSE LET r == ResponsesChunkToSse(st, Head(chunks))
       IN  r.sse \o EmittedFrom(r.st, Tail(chunks))

\* the closure state after a sequence of calls
RECURSIVE StateAfter(_, _)
StateAfter(st, chunks) ==
  IF chunks = <<>> THEN st
  ELSE StateAfter(ResponsesChunkToSse(st, Head(chunks)).st, Tail(chunks))

\* what the translator of this stream has emitted for the chunks delivered
ResponsesEmitted == EmittedFrom(NewResponsesState(tr.model), wire)

\* a frame carrying a finish_reason, or the error object
IsFinishOrError(frame) ==
  /\ Len(frame) >= 2
  /\ frame[1] = DATA
  /\ frame[2].k = "{"
  /\ \/ Get(frame[2].j, "object", "none") = "error"
     \/ Get(frame[2].j, "finish_reason", "null") # "null"

\* C29: over the calls of one responses stream the translator emits at most one
\* finish-or-error frame and at most one [DONE], and the [DONE] is the frame
\* right after the finish-or-error frame
C29_OneFinishOneDone ==
  tr.kind = "responses" =>
    LET e == ResponsesEmitted
    IN  /\ tr = StateAfter(NewResponsesState(tr.model), wire)
        /\ Cardinality({i \in 1..Len(e) : IsFinishOrError(e[i])}) <= 1
        /\ Cardinality({i \in 1..Len(e) : e[i] = DoneFrame}) <= 1
        /\ \A i \in 1..Len(e) :
             IsFinishOrError(e[i]) => i < Len(e) /\ e[i + 1] = DoneFrame
        /\ \A i \in 1..Len(e) :
             e[i] = DoneFrame => i > 1 /\ IsFinishOrError(e[i - 1])

\* closing events arrive in one chunk and again in a later one
C29_Witness ==
  /\ tr.kind = "responses"
  /\ Len(wire) = 3
  /\ wire[1] = DeltaEvent(<<"A">>)
  /\ wire[2] = CompletedEvent \o IncompleteEvent
  /\ wire[3] = CompletedEvent
  /\ Cardinality({i \in 1..Len(ResponsesEmitted) : ResponsesEmitted[i] = DoneFrame}) = 1

\* --------------------------------------- responses translator, chunk splits

\* the frames of a list without the empty placeholders
EmittedFrames(chunks) ==
  SelectNonEmpty(EmittedFrom(NewResponsesState(tr.model), chunks))

\* C30: the frames the responses translator emits for the chunks delivered are
\* the frames it emits when the same bytes arrive as one chunk, placeholders
\* left out
C30_SplitIndependent ==
  tr.kind = "responses" => EmittedFrames(wire) = EmittedFrames(<<Flatten(wire)>>)

\* ------------------------------------------------ passthrough stream, usage

\* the usage objects of the data: payloads in a byte sequence
UsagesIn(bytes) ==
  {bytes[i].j.usage : i \in {n \in 2..(Len(bytes) - 1) :
                               /\ bytes[n - 1] = DATA
                               /\ bytes[n].k = "{"
                               /\ bytes[n + 1] = JT
                               /\ Has(bytes[n].j, "usage")}}

\* a passthrough stream was read to its end and its row closed
PassthroughClosed ==
  /\ tr.kind = "passthrough"
  /\ pc = "done"
  /\ log[1].status = "success"

\* C31: a passthrough stream whose upstream bytes hold a usage payload closes
\* with the token counts of that payload, however the bytes were cut into chunks
C31_UsageWhateverTheSplit ==
  (PassthroughClosed /\ Cardinality(UsagesIn(Flatten(wire))) = 1) =>
    \A u \in UsagesIn(Flatten(wire)) :
      /\ log[1].tokensIn = Get(u, "prompt_tokens", Null)
      /\ log[1].tokensOut = Get(u, "completion_tokens", Null)

\* ------------------------------------------------- model field of the frames

\* the chat.completion.chunk payloads among the data: frames the client received
ClientChunkPayloads ==
  {FramePayload(ClientFrames[i]) :
     i \in {n \in 1..Len(ClientFrames) :
              /\ IsJsonFrame(ClientFrames[n])
              /\ Get(FramePayload(ClientFrames[n]), "object", "none")
                   = "chat.completion.chunk"}}

\* C32: every chat.completion.chunk frame the client received names the logical
\* model resolved for the request
C32_FramesNameLogicalModel ==
  pc \in {"reading", "close_success", "close_failed", "done"} =>
    \A j \in ClientChunkPayloads : Has(j, "model") /\ j.model = ctx.logicalModel

\* ------------------------------------------------- relay connection states

\* the event-stream headers have been written
HeadersWritten == raw.headStatus # Null

\* the state of one connection under streamToClient, which the handler enters
\* with the adapter's stream result
RelayStateOk ==
  result.kind = "stream" =>
  /\ raw.writes # <<>> =>
       /\ raw.headStatus = Some(200)
       /\ raw.writes[1] = InitialChunk(ctx.logicalModel)
  /\ raw.ended <= 1
  /\ raw.ended = 1 => HeadersWritten
  /\ (HeadersWritten /\ pc = "reading") => raw.ended = 0
  /\ (HeadersWritten /\ pc \in {"close_success", "close_failed", "done"}) => raw.ended = 1
  /\ HeadersWritten => (result.response.ok /\ reply.sent = 0 /\ reply.status = Null)
  /\ (result.kind = "stream" /\ ~result.response.ok /\ pc \in {"send", "done"}) =>
       /\ raw = NewRaw
       /\ reply.status = Some(result.response.status)

\* the headers are written once and nothing changes on an ended connection
RelayStepOk ==
  /\ HeadersWritten => raw'.headStatus = raw.headStatus
  /\ raw.ended = 1 => raw' = raw

\* C33: the headers are written once and before any body byte, the first body
\* frame is the empty delta frame, the connection is ended once on each path
\* and nothing is written after that; an upstream response that is not OK is
\* answered with the upstream's status and nothing is streamed
C33_RelayStateMachine == [](RelayStateOk) /\ [][RelayStepOk]_vars

C33_Witness ==
  /\ result.kind = "stream"
  /\ HeadersWritten
  /\ pc = "done"
  /\ raw.ended = 1
  /\ Len(raw.writes) >= 3
  /\ log[1].status = "error"

\* ------------------------------------------------------- running usage

\* the usage values the chunkToSse calls of this stream returned, in order
RECURSIVE UsagesReturned(_, _)
UsagesReturned(st, chunks) ==
  IF chunks = <<>> THEN <<>>
  ELSE LET r == ChunkToSse(st, Head(chunks))
       IN  <<r.usage>> \o UsagesReturned(r.st, Tail(chunks))

\* the last value of a count that is not null in a sequence of usages, or null
LastNonNull(usages, field) ==
  LET seen == {i \in 1..Len(usages) : Get(usages[i], field, Null) # Null}
  IN  IF seen = {} THEN Null
      ELSE usages[CHOOSE i \in seen : \A k \in seen : k <= i][field]

StreamUsages == UsagesReturned(NewTranslator(result.provider, result.model), wire)

\* C34: a stream read to its end records, for each count on its own, the last
\* value that was not null among the usages chunkToSse returned, and null when
\* there was none
C34_LastNonNullCounts ==
  (pc = "done" /\ log[1].status = "success") =>
    /\ log[1].tokensIn = LastNonNull(StreamUsages, "prompt_tokens")
    /\ log[1].tokensOut = LastNonNull(StreamUsages, "completion_tokens")

\* both counts came from different calls, and a later usage without the input
\* count left the earlier input count in place
C34_Witness ==
  /\ pc = "done"
  /\ log[1].status = "success"
  /\ Len(wire) = 3
  /\ wire[1] = UsageFrame
  /\ wire[2] = DataFrame(UpstreamChunk([usage |-> [prompt_tokens |-> Some(7)]], "null"))
  /\ wire[3] = DataFrame(UpstreamChunk([usage |-> [completion_tokens |-> Some(2)]], "null"))
  /\ log[1].tokensIn = Some(7)
  /\ log[1].tokensOut = Some(2)

\* ------------------------------------------------- Google stream, fragments

\* the newline-delimited fragments of the bytes the upstream delivered
GoogleFragments == TrimmedLines(Flatten(wire))

\* a fragment that parses and holds text
HasExtractableText(fragment) ==
  /\ IsJson(fragment)
  /\ Flatten(Get(JsonParse(fragment), "parts", <<>>)) # <<>>

\* the frames the client received after the initial empty frame
RelayedFrames == SubSeq(ClientFrames, 2, Len(ClientFrames))

\* C35: while a Google stream is read, the client has received one
\* chat.completion.chunk frame per fragment with text, in order and with the
\* fragment's text, and no frame for any other fragment
C35_OneFramePerTextFragment ==
  (tr.kind = "google" /\ pc = "reading") =>
    LET texts == SelectNonEmpty([i \in 1..Len(GoogleFragments) |->
                   IF HasExtractableText(GoogleFragments[i])
                   THEN Flatten(JsonParse(GoogleFragments[i]).parts) ELSE <<>>])
    IN  /\ Len(RelayedFrames) = Len(texts)
        /\ \A i \in 1..Len(RelayedFrames) :
             /\ IsJsonFrame(RelayedFrames[i])
             /\ FramePayload(RelayedFrames[i]).object = "chat.completion.chunk"
             /\ Get(FramePayload(RelayedFrames[i]), "content", <<>>) = texts[i]

\* ----------------------------------- responses translator, finish reason

\* the blank-line terminated events in the first k chunks delivered
EventsUpTo(k) ==
  LET pieces == SplitBlank(Flatten(SubSeq(wire, 1, k)))
  IN  SubSeq(pieces, 1, Len(pieces) - 1)

\* the type an event's JSON payload names, "none" without such a payload
EventKind(rawEvent) ==
  LET payloadStr == Flatten(DataLines(TrimmedLines(rawEvent)))
  IN  IF IsJson(payloadStr) THEN Get(JsonParse(payloadStr), "type", "none") ELSE "none"

IsLengthEvent(rawEvent) ==
  /\ EventKind(rawEvent) = "response.incomplete"
  /\ JsonParse(Flatten(DataLines(TrimmedLines(rawEvent)))).reason = "max_output_tokens"

IsClosingEvent(rawEvent) ==
  EventKind(rawEvent) \in {"response.incomplete", "response.completed"}

\* the calls by whose end a closing event has been handled
ClosedCalls ==
  {k \in 1..Len(wire) : \E i \in 1..Len(EventsUpTo(k)) : IsClosingEvent(EventsUpTo(k)[i])}

\* the frames call k returned
FramesOfCall(k) ==
  ResponsesChunkToSse(StateAfter(NewResponsesState(tr.model), SubSeq(wire, 1, k - 1)),
                      wire[k]).sse

\* the finish reasons of the finish frames among some frames
FinishReasonsIn(frames) ==
  {frames[i][2].j.finish_reason :
     i \in {n \in 1..Len(frames) :
              /\ IsFinishOrError(frames[n])
              /\ Get(frames[n][2].j, "object", "none") = "chat.completion.chunk"}}

FailedMidStream ==
  /\ HeadersWritten
  /\ \/ pc = "close_failed"
     \/ pc = "done" /\ log[1].errorClass = "stream_failed"

\* the last writes to the client are the stream_failed error frame and [DONE]
ReportedInBand ==
  LET n == Len(raw.writes)
  IN  /\ n >= 2
      /\ raw.writes[n - 1] = DataFrame(StreamFailedError)
      /\ raw.writes[n] = DoneFrame

\* the response status is 200 and no reply carries another status
StatusStays200 ==
  HeadersWritten =>
    /\ raw.headStatus = Some(200)
    /\ reply.status = Null
    /\ reply.sent = 0

\* no adapter is called and the status line is not written again
NoCallAfterHeaders ==
  HeadersWritten =>
    /\ calls' = calls
    /\ fo'.called = fo.called
    /\ raw'.headStatus = raw.headStatus

\* C38: once the event-stream headers are written the status stays 200, a
\* failure of the read loop reaches the client as the error frame followed by
\* [DONE], and no provider is called any more
C38_FailureOnlyInBand ==
  /\ [](StatusStays200 /\ (FailedMidStream => ReportedInBand))
  /\ [][NoCallAfterHeaders]_vars

\* --------------------------------------------------- how a stream's row closes

\* the relay has returned from a stream it began
StreamReturned == result.kind = "stream" /\ HeadersWritten /\ pc = "done"

\* the translator's no-text error frame is among the writes
TruncatedWritten ==
  \E i \in 1..Len(raw.writes) :
    /\ Len(raw.writes[i]) >= 2
    /\ raw.writes[i][2].k = "{"
    /\ Get(raw.writes[i][2].j, "code", "none") = "OUTPUT_TRUNCATED"

\* C39: a stream whose read loop ended without throwing closes its row as
\* success with status 200, whatever the translator emitted; a row closed as
\* error is closed with class stream_failed and status 500, by the catch block
\* of the read loop and by nothing else
C39_NormalEndClosesSuccess ==
  StreamReturned =>
    /\ log[1].updates = 1
    /\ ~ReportedInBand =>
         /\ log[1].status = "success"
         /\ log[1].httpStatus = Some(200)
         /\ log[1].errorClass = "null"
    /\ ReportedInBand =>
         /\ log[1].status = "error"
         /\ log[1].httpStatus = Some(500)
         /\ log[1].errorClass = "stream_failed"

\* the translator emitted the OUTPUT_TRUNCATED frame, the loop ended normally
C39_Witness ==
  /\ StreamReturned
  /\ tr.kind = "responses"
  /\ TruncatedWritten
  /\ ~ReportedInBand
  /\ log[1].status = "success"
  /\ log[1].httpStatus = Some(200)

\* ------------------------------------------------ key disabled while in flight

\* the steps of the request after its key lookup that must come: each awaited
\* call returns, and the upstream body ends or its read rejects
HandlerStep ==
  \/ ApiKeyStamp
  \/ SendReply
  \/ ChatValidate
  \/ ChatResolve
  \/ LogRequestStart
  \/ CheckProviderKey
  \/ MockStreamWrite
  \/ MockStreamClose
  \/ CallAdapter
  \/ UpstreamModelNotAllowed
  \/ HandleChatJson
  \/ StreamNonOk
  \/ StreamBegin
  \/ ReadEnd
  \/ ReadThrows
  \/ StreamCloseSuccess
  \/ StreamCloseFailed
  \/ EmbedResolve
  \/ EmbedLogStart
  \/ EmbedCall
  \/ EmbedFinish

\* the lookup of this request saw the key ACTIVE
SawActive == req.arrived /\ req.apiKey = "ACTIVE"

\* the pipeline of a gateway with both provider credentials configured
KeyLiveInit == Init /\ env.OPENAI_API_KEY /\ env.GOOGLE_API_KEY

\* that pipeline, with every awaited step of the handler resumed
KeyLiveSpec == KeyLiveInit /\ [][Next]_vars /\ WF_vars(HandlerStep)

\* a request past its lookup is never answered 401 and returns with its row
\* closed; a request whose lookup did not see ACTIVE is answered 401 at once
InFlightUnaffected ==
  /\ SawActive =>
       /\ reply.status # Some(401)
       /\ (pc = "done" /\ Len(log) = 1) => log[1].updates = 1
  /\ (req.arrived /\ ~SawActive) =>
       /\ reply.status = Some(401)
       /\ pc \in {"send", "done"}
       /\ log = <<>>
       /\ calls = 0

\* the status is read by the lookup and by no later step; a lookup that finds
\* the key disabled answers 401
StatusReadOnce ==
  /\ req.arrived => (req'.arrived /\ req'.apiKey = req.apiKey)
  /\ (~req.arrived /\ req'.arrived /\ req'.cred = "key") =>
       req'.apiKey = db.keyStatus
  /\ (~req.arrived /\ req'.arrived /\ db.keyStatus = "DISABLED") =>
       (reply'.status = Some(401) /\ pc' = "send")

\* C40: the key's status is read once, by the pre-handler's lookup; a request
\* whose lookup saw ACTIVE goes on to its end when the key is disabled
\* meanwhile, and a lookup made after the disable is answered 401
C40_KeyStatusReadOnce ==
  /\ [](InFlightUnaffected)
  /\ [][StatusReadOnce]_vars
  /\ (SawActive ~> pc = "done")

\* a stream begun under an active key and relayed to its end after the disable
C40_Witness ==
  /\ SawActive
  /\ db.keyStatus = "DISABLED"
  /\ pc = "done"
  /\ result.kind = "stream"
  /\ raw.ended = 1
  /\ calls = 1
  /\ log[1].status = "success"

\* ------------------------------------------------- two requests in flight

\* Two streaming requests relayed by one process. Every variable of a request
\* is indexed by the request: chatCompletions declares buffer, roleSent,
\* doneSent, finishReason and sawText inside the call that builds the result,
\* and streamToClient declares tokensIn, tokensOut and hasSentDone inside its
\* own call.
Requests == {1, 2}

ConcurrentChunks == 2

ConcurrentModels == {"gpt-5-nano-2025-08-07", "gpt-4o-2024-08-06"}

\* chunks the upstream of a request may deliver
ConcurrentUpstream(kind) ==
  IF kind = "responses"
  THEN {DeltaEvent(<<"A">>), SubSeq(DeltaEvent(<<"B">>), 1, 5),
        SubSeq(DeltaEvent(<<"B">>), 6, 8), CompletedEvent}
  ELSE {UsageFrame, DoneFrame}

\* one closure for every request
SharedTranslator(trs, r) == trs[1]

\* the closure state of the chunkToSse of request r's result
TranslatorOf(trs, r) == trs[r]

ConcurrentCtx(m) == Resolve(StreamProject, m, "none", "none")

ConcurrentInit ==
  /\ \E models \in [Requests -> ConcurrentModels] :
       /\ ctx = [r \in Requests |-> ConcurrentCtx(models[r])]
       /\ tr = [r \in Requests |->
                  NewTranslator(ConcurrentCtx(models[r]).provider, models[r])]
       /\ raw = [r \in Requests |->
                   [headStatus |-> Some(200),
                    resolvedHeader |-> ConcurrentCtx(models[r]).header,
                    writes |-> <<InitialChunk(models[r])>>, ended |-> 0]]
       /\ log = [r \in Requests |-> NewLogRow(ConcurrentCtx(models[r]))]
  /\ pc = [r \in Requests |-> "reading"]
  /\ relay = [r \in Requests |-> NewRelay]
  /\ chunksLeft = [r \in Requests |-> ConcurrentChunks]
  /\ wire = [r \in Requests |-> <<>>]
  /\ env = [OPENAI_API_KEY |-> TRUE, GOOGLE_API_KEY |-> TRUE, GATEWAY_MOCK |-> FALSE]
  /\ db = [keyStatus |-> "ACTIVE", lastUsedStamped |-> TRUE,
           project |-> StreamProject, prices |-> SeedPrices]
  /\ req = NoReq
  /\ reply = NewReply
  /\ calls = 2
  /\ fo = NoFailover
  /\ client = "connected"
  /\ result = NoResult
  /\ costArgs = NoCost

\* one pass of the read loop of request r
ConcurrentReadChunk(r) ==
  /\ pc[r] = "reading"
  /\ chunksLeft[r] > 0
  /\ \E chunk \in ConcurrentUpstream(tr[r].kind) :
       LET step == RelayStep(TranslatorOf(tr, r), relay[r], ctx[r].logicalModel, chunk)
       IN  /\ tr' = [tr EXCEPT ![r] = step.tr]
           /\ raw' = [raw EXCEPT ![r].writes = @ \o step.sse]
           /\ relay' = [relay EXCEPT ![r] = step.relay]
           /\ wire' = [wire EXCEPT ![r] = Append(@, chunk)]
  /\ chunksLeft' = [chunksLeft EXCEPT ![r] = @ - 1]
  /\ UNCHANGED <<pc, env, db, req, ctx, reply, log, calls, result, costArgs, fo, client>>

\* the read of request r gives done
ConcurrentReadEnd(r) ==
  /\ pc[r] = "reading"
  /\ raw' = [raw EXCEPT
               ![r].writes = IF relay[r].hasSentDone THEN @ ELSE @ \o <<DoneFrame>>,
               ![r].ended = @ + 1]
  /\ pc' = [pc EXCEPT ![r] = "close_success"]
  /\ UNCHANGED <<env, db, req, ctx, reply, log, calls, tr, relay, chunksLeft, wire, fo, client,
                 result, costArgs>>

\* the read of request r throws
ConcurrentReadThrows(r) ==
  /\ pc[r] = "reading"
  /\ raw' = [raw EXCEPT
               ![r].writes = @ \o <<DataFrame(StreamFailedError), DoneFrame>>,
               ![r].ended = @ + 1]
  /\ pc' = [pc EXCEPT ![r] = "close_failed"]
  /\ UNCHANGED <<env, db, req, ctx, reply, log, calls, tr, relay, chunksLeft, wire, fo, client,
                 result, costArgs>>

\* the terminal update of request r's row
ConcurrentClose(r) ==
  /\ pc[r] \in {"close_success", "close_failed"}
  /\ log' = [log EXCEPT ![r] =
               logRequestFinish(@, BaseMetadata(ctx[r]),
                 IF pc[r] = "close_success"
                 THEN [status |-> "success", httpStatus |-> Some(200),
                       tokensIn |-> relay[r].tokensIn, tokensOut |-> relay[r].tokensOut,
                       estimatedCostUsdc |->
                         calculateCost(db.prices, ctx[r].provider, ctx[r].logicalModel,
                                       relay[r].tokensIn, relay[r].tokensOut),
                       provider |-> ctx[r].provider, model |-> ctx[r].logicalModel,
                       fallbackUsed |-> Some(FALSE), retryCount |-> Some(0)]
                 ELSE [status |-> "error", httpStatus |-> Some(500),
                       errorClass |-> "stream_failed",
                       provider |-> ctx[r].provider, model |-> ctx[r].logicalModel,
                       fallbackUsed |-> Some(FALSE), retryCount |-> Some(0)])]
  /\ pc' = [pc EXCEPT ![r] = IF pc[r] = "close_success" THEN "done" ELSE "failed"]
  /\ UNCHANGED <<env, db, req, ctx, reply, raw, calls, tr, relay, chunksLeft, wire, fo, client,
                 result, costArgs>>

ConcurrentNext ==
  \E r \in Requests :
    \/ ConcurrentReadChunk(r)
    \/ ConcurrentReadEnd(r)
    \/ ConcurrentReadThrows(r)
    \/ ConcurrentClose(r)

ConcurrentSpec == ConcurrentInit /\ [][ConcurrentNext]_vars

\* what one request relayed alone has after the chunks given: its closure
\* state, its loop locals and its writes
RECURSIVE Alone(_, _, _, _, _)
Alone(st, rl, writes, model, chunks) ==
  IF chunks = <<>> THEN [tr |-> st, relay |-> rl, writes |-> writes]
  ELSE LET step == RelayStep(st, rl, model, Head(chunks))
       IN  Alone(step.tr, step.relay, writes \o step.sse, model, Tail(chunks))

AloneRun(r) ==
  Alone(NewTranslator(ctx[r].provider, ctx[r].logicalModel), NewRelay,
        <<InitialChunk(ctx[r].logicalModel)>>, ctx[r].logicalModel, wire[r])

\* the writes that end a stream, by the way its read loop was left
ClosingWrites(r, sentDone) ==
  IF pc[r] = "reading" THEN <<>>
  ELSE IF pc[r] \in {"close_failed", "failed"}
       THEN <<DataFrame(StreamFailedError), DoneFrame>>
  ELSE IF sentDone THEN <<>> ELSE <<DoneFrame>>

\* C36: in every interleaving of two relayed streams, the closure state, the
\* loop locals, the frames written and the usage recorded of each request are
\* those the request has when its chunks are relayed alone
C36_RequestsDoNotShareState ==
  \A r \in Requests :
    LET alone == AloneRun(r)
    IN  /\ tr[r] = alone.tr
        /\ relay[r] = alone.relay
        /\ raw[r].writes = alone.writes \o ClosingWrites(r, alone.relay.hasSentDone)
        /\ pc[r] = "done" =>
             /\ log[r].tokensIn = alone.relay.tokensIn
             /\ log[r].tokensOut = alone.relay.tokensOut

\* two responses streams, the first holding half an event in its buffer while
\* the second relays a whole event, then the first receives the other half
C36_Witness ==
  /\ tr[1].kind = "responses"
  /\ tr[2].kind = "responses"
  /\ \E a, b \in ConcurrentUpstream("responses") :
       /\ a \o b = DeltaEvent(<<"B">>)
       /\ wire[1] = <<a, b>>
  /\ wire[2] = <<DeltaEvent(<<"A">>), CompletedEvent>>
  /\ \A r \in Requests : pc[r] = "done"
  /\ raw[1].writes # raw[2].writes
  /\ \A r \in Requests : \E i \in DOMAIN raw[r].writes : raw[r].writes[i] = DoneFrame

====
